---------------------------- MODULE Spec2Model ----------------------------
(***************************************************************************)
(* Three-gate stock analyzer (src/stock_analyzer.py, ZerodhaAnalyzer).     *)
(*                                                                         *)
(* Numbers.  Every fundamentals metric, price and indicator is a fixed-    *)
(* point number in hundredths: the Python value 15 is 1500, 0.05 is 5.     *)
(* round(x, 2) is therefore rounding to an integer, and round(x, 1) on the *)
(* 0..10 scale is kept in tenths, i.e. the normalized score 7.8 is 78.     *)
(* Cash amounts (ocf, fcf, total_debt) are plain integers.                 *)
(*                                                                         *)
(* Absence.  Python None is the empty tuple, a present value x is <<x>>.   *)
(***************************************************************************)
EXTENDS Integers, Sequences, FiniteSets, TLC

VARIABLES
    symbol,       \* the symbol analyze_stock is asked for, None when already resolved
    provider,     \* what the data providers answer for it, None when already fetched
    attempts,     \* the symbols _resolve_ticker has tried, in order
    pc,           \* "request" | "start" before the run; "done" | "insufficient" |
                  \* "raised" after it
    fund,         \* merged fundamentals mapping (field -> optional number)
    sector_type,  \* 'general' | 'banking' | 'nbfc'
    data,         \* the price series, as the aggregates and readings taken from it
    technical,    \* technical snapshot passed as `analysis`, None until computed
    fund_result,  \* Gate 1 result, None until computed
    val_result,   \* Gate 2 result, None until computed
    red_flags,    \* red flag report, None until computed
    tech_result,  \* Gate 3 result, None until computed
    verdict,      \* final verdict, None until computed
    tasks,        \* app.tasks: the task registry, task id -> task
    tasks_lock,   \* app.tasks_lock: None when free, else the thread holding it
    threads,      \* the running threads: thread id -> position and locals
    clock,        \* time.time(), in hours
    analyzing,    \* the symbols analyze_stock was called with, in call order
    paper_positions,  \* ZerodhaTrader.paper_positions: clean symbol -> position
    paper_orders, \* ZerodhaTrader.paper_orders: the executed paper orders, in order
    placed        \* what each place_order call returned or raised, in call order

\* the state of the web application and of a batch run
taskvars == <<tasks, tasks_lock, threads, clock, analyzing>>

\* the state of the paper trader (src/zerodha_trading_bot.py)
papervars == <<paper_positions, paper_orders, placed>>

vars == <<symbol, provider, attempts, pc, fund, sector_type, data, technical, fund_result, val_result,
          red_flags, tech_result, verdict, tasks, tasks_lock, threads, clock, analyzing,
          paper_positions, paper_orders, placed>>

----------------------------------------------------------------------------
(* Python value helpers                                                    *)

None == <<>>
Some(x) == <<x>>
Val(v) == v[1]

\* truthiness of an optional number: None and 0 are falsy
Truthy(v) == v /= None /\ Val(v) /= 0

\* truthiness of an optional boolean: None and False are falsy
TruthyB(v) == v /= None /\ Val(v)

\* Python `a or b` on optional numbers
Or(a, b) == IF Truthy(a) THEN a ELSE b

Abs(x) == IF x < 0 THEN -x ELSE x

\* round(n / d) to the nearest integer, ties to even (Python round), d > 0
RoundDiv(n, d) ==
    LET q == n \div d
        r == n % d
    IN  IF 2 * r < d THEN q
        ELSE IF 2 * r > d THEN q + 1
        ELSE IF q % 2 = 0 THEN q ELSE q + 1

RECURSIVE SumSeq(_)
SumSeq(s) == IF s = <<>> THEN 0 ELSE Head(s) + SumSeq(Tail(s))

\* s[:n]
Prefix(s, n) == SubSeq(s, 1, IF Len(s) < n THEN Len(s) ELSE n)

\* fixed point: whole number x as hundredths
H(x) == x * 100

\* a price of the frame, kept to thousandths: whole number x
Px(x) == x * 1000

\* round(p, 2) of a frame price, in hundredths
round2(p) == RoundDiv(p, 10)

----------------------------------------------------------------------------
(* Fundamentals mapping                                                    *)

Fields == {"gross_margin", "operating_margin", "roe", "roce", "roa",
           "de_ratio", "ocf", "total_debt", "rev_cagr_3y",
           "revenue_growth_qoq", "pat_cagr_3y", "earnings_growth_qoq",
           "promoter_holding", "insider_pct", "fcf", "gnpa", "nnpa", "pb",
           "pe", "dividend_yield", "ev_ebitda", "fii_holding",
           "dii_holding"}

\* the mapping with every field absent
EmptyFund == [f \in Fields |-> None]

\* the mapping `base` with the fields of `upd` overriding
With(base, upd) == [f \in Fields |-> IF f \in DOMAIN upd THEN upd[f] ELSE base[f]]

SectorTypes == {"general", "banking", "nbfc"}

----------------------------------------------------------------------------
(* DATA FETCHING (yfinance + Screener.in merge)                            *)
(*                                                                         *)
(* A symbol is its base name and its marker: "" for a bare symbol, ".NS"   *)
(* and ".BO" for the two Indian exchanges, ".L" for any other dotted       *)
(* symbol and "^" for an index.                                            *)

Sym(base, mark) == [base |-> base, mark |-> mark]

\* LUPIN.NS -> LUPIN, HDFCBANK.BO -> HDFCBANK, bare symbol -> itself, else None
screener_symbol(sym) ==
    IF sym.mark \in {".NS", ".BO"} THEN Some(sym.base)
    ELSE IF sym.mark = "" THEN Some(sym.base)
    ELSE None

\* the top-ratios block keeps a parsed number only when it is truthy
top_ratio(v) == IF Truthy(v) THEN v ELSE None

\* the mapping built from a fetched page; `page` holds the number parsed
\* from each labelled cell (None where the row is missing or malformed)
parse_screener_page(page) ==
    LET book == top_ratio(page.book_value)
        price == top_ratio(page.current_price)
        eq_cap == IF Truthy(page.equity_capital) THEN Val(page.equity_capital) ELSE 0
        reserves == IF Truthy(page.reserves) THEN Val(page.reserves) ELSE 0
        total_equity == eq_cap + reserves
    IN  [market_cap_cr    |-> top_ratio(page.market_cap_cr),
         pe               |-> top_ratio(page.pe),
         book_value       |-> book,
         dividend_yield   |-> top_ratio(page.dividend_yield),
         roce             |-> top_ratio(page.roce),
         roe              |-> top_ratio(page.roe),
         rev_cagr_3y      |-> page.rev_cagr_3y,
         pat_cagr_3y      |-> page.pat_cagr_3y,
         opm              |-> page.opm,
         eps              |-> page.eps,
         gnpa             |-> page.gnpa,
         nnpa             |-> page.nnpa,
         financing_margin |-> page.financing_margin,
         promoter_holding |-> page.promoter_holding,
         fii_holding      |-> page.fii_holding,
         dii_holding      |-> page.dii_holding,
         ocf_cr           |-> page.ocf_cr,
         de_ratio         |-> IF total_equity > 0 /\ page.borrowings /= None
                              THEN Some(RoundDiv(Val(page.borrowings) * 100,
                                                 total_equity))
                              ELSE None,
         roce_annual      |-> page.roce_annual,
         pb               |-> IF price /= None /\ book /= None /\ Val(book) > 0
                              THEN Some(RoundDiv(Val(price) * 100, Val(book)))
                              ELSE None]

fetch_from_screener_any_status(sym, has_scraping, response) ==
    IF ~has_scraping THEN None
    ELSE IF screener_symbol(sym) = None THEN None
    ELSE IF response.kind = "raises" THEN None
    ELSE Some(parse_screener_page(response.page))

\* None: libraries missing, symbol not eligible, request failed, status not 200
fetch_from_screener(sym, has_scraping, response) ==
    IF ~has_scraping THEN None
    ELSE IF screener_symbol(sym) = None THEN None
    ELSE IF response.kind = "raises" THEN None
    ELSE IF response.status /= 200 THEN None
    ELSE Some(parse_screener_page(response.page))

\* the symbols _resolve_ticker tries, in order
resolve_candidates(sym) ==
    IF sym.mark \in {".NS", ".BO", "^"} THEN <<sym>>
    ELSE IF sym.mark /= "" THEN <<sym>>
    ELSE <<sym, Sym(sym.base, ".NS"), Sym(sym.base, ".BO")>>

MinSessions == 50

\* one pass of the loop body for a price-history answer h
resolve_attempt_uncaught(h) ==
    IF h.kind = "raises" THEN "raise"
    ELSE IF h.kind = "frame" /\ h.sessions > 0 /\ h.sessions >= MinSessions
         THEN "return" ELSE "continue"

resolve_attempt(h) ==
    IF h.kind = "raises" THEN "continue"
    ELSE IF h.kind = "frame" /\ h.sessions > 0 /\ h.sessions >= MinSessions
         THEN "return" ELSE "continue"

RECURSIVE resolve_from(_, _, _)
resolve_from(cands, history, tried) ==
    IF cands = <<>> THEN [ticker |-> None, tried |-> tried]
    ELSE LET sym == Head(cands)
             step == resolve_attempt(history[sym.mark])
         IN  IF step = "return"
             THEN [ticker |-> Some(sym), tried |-> Append(tried, sym)]
             ELSE IF step = "raise"
             THEN [exception |-> "Exception", tried |-> Append(tried, sym)]
             ELSE resolve_from(Tail(cands), history, Append(tried, sym))

resolve_ticker(sym, history) == resolve_from(resolve_candidates(sym), history, <<>>)

\* value * 100 when the provider reports a fraction (magnitude under `bound`)
as_percent(raw, bound) ==
    IF raw /= None /\ Abs(Val(raw)) < bound THEN Some(Val(raw) * 100) ELSE raw

Crore == 10000000

ResultFields == Fields \cup {"market_cap", "forward_pe", "book_value", "eps",
                             "financing_margin", "sector", "industry",
                             "data_source"}

\* the primary-derived mapping; info is the provider's flat mapping ({} when
\* reading it raised) and cagr the pair from the annual financials
primary_fundamentals(info, cagr) ==
    LET raw_de == info.debtToEquity
        dy_raw == info.dividendYield
        insider_hold == info.heldPercentInsiders
        derived ==
          [pe |-> info.trailingPE,
           forward_pe |-> info.forwardPE,
           pb |-> info.priceToBook,
           roe |-> as_percent(info.returnOnEquity, H(5)),
           roce |-> None,
           roa |-> as_percent(info.returnOnAssets, H(5)),
           de_ratio |-> IF raw_de /= None /\ Val(raw_de) > H(10)
                        THEN Some(RoundDiv(Val(raw_de), 100)) ELSE raw_de,
           gross_margin |-> as_percent(info.grossMargins, H(5)),
           operating_margin |-> as_percent(info.operatingMargins, H(5)),
           dividend_yield |-> IF dy_raw /= None /\ Val(dy_raw) < 20
                              THEN Some(Val(dy_raw) * 100)
                              ELSE IF dy_raw /= None /\ Val(dy_raw) < H(20)
                              THEN dy_raw ELSE None,
           market_cap |-> info.marketCap,
           sector |-> IF info.sector = None THEN Some("Unknown") ELSE info.sector,
           industry |-> IF info.industry = None THEN Some("Unknown") ELSE info.industry,
           total_debt |-> info.totalDebt,
           ocf |-> info.operatingCashflow,
           fcf |-> info.freeCashflow,
           earnings_growth_qoq |-> info.earningsGrowth,
           revenue_growth_qoq |-> info.revenueGrowth,
           rev_cagr_3y |-> cagr[1],
           pat_cagr_3y |-> cagr[2],
           book_value |-> info.bookValue,
           eps |-> info.trailingEps,
           insider_pct |-> IF insider_hold /= None /\ Val(insider_hold) < H(2)
                           THEN Some(Val(insider_hold) * 100) ELSE insider_hold,
           promoter_holding |-> None,
           ev_ebitda |-> info.enterpriseToEbitda,
           gnpa |-> None,
           nnpa |-> None,
           financing_margin |-> None,
           fii_holding |-> None,
           dii_holding |-> None,
           data_source |-> Some("yfinance")]
    IN  [f \in ResultFields |-> derived[f]]

\* `if screener.get(key):` - the value overrides only when it is truthy
override_if_truthy(primary, secondary) ==
    IF Truthy(secondary) THEN secondary ELSE primary

\* `if screener.get(key) is not None:`
override_if_present(primary, secondary) ==
    IF secondary /= None THEN secondary ELSE primary

\* a Crore amount as an absolute amount
from_crore(v) == IF v = None THEN None ELSE Some(Val(v) * Crore)

merge_screener(result, s) ==
    LET promoter == s.promoter_holding
        merged ==
          [pe |-> override_if_truthy(result["pe"], s.pe),
           pb |-> override_if_truthy(result["pb"], s.pb),
           roe |-> override_if_present(result["roe"], s.roe),
           roce |-> override_if_present(
                        override_if_present(result["roce"], s.roce), s.roce_annual),
           book_value |-> override_if_truthy(result["book_value"], s.book_value),
           dividend_yield |-> override_if_present(result["dividend_yield"],
                                                  s.dividend_yield),
           eps |-> override_if_truthy(result["eps"], s.eps),
           market_cap |-> override_if_truthy(result["market_cap"],
                                             from_crore(s.market_cap_cr)),
           de_ratio |-> override_if_present(result["de_ratio"], s.de_ratio),
           rev_cagr_3y |-> override_if_present(result["rev_cagr_3y"], s.rev_cagr_3y),
           pat_cagr_3y |-> override_if_present(result["pat_cagr_3y"], s.pat_cagr_3y),
           operating_margin |-> override_if_present(result["operating_margin"], s.opm),
           promoter_holding |-> override_if_present(result["promoter_holding"], promoter),
           insider_pct |-> override_if_present(result["insider_pct"], promoter),
           ocf |-> override_if_present(result["ocf"], from_crore(s.ocf_cr)),
           gnpa |-> override_if_present(result["gnpa"], s.gnpa),
           nnpa |-> override_if_present(result["nnpa"], s.nnpa),
           financing_margin |-> override_if_present(result["financing_margin"],
                                                    s.financing_margin),
           fii_holding |-> override_if_present(result["fii_holding"], s.fii_holding),
           dii_holding |-> override_if_present(result["dii_holding"], s.dii_holding),
           data_source |-> Some("screener.in + yfinance")]
    IN  [f \in ResultFields |-> IF f \in DOMAIN merged THEN merged[f] ELSE result[f]]

\* `if screener:` - a fetched mapping is never empty (it carries '_source')
get_fundamentals(info, cagr, screener) ==
    LET result == primary_fundamentals(info, cagr)
    IN  IF screener /= None THEN merge_screener(result, Val(screener)) ELSE result

BANKING_KEYWORDS == {"bank", "banking", "banks-regional", "banks-diversified"}
NBFC_KEYWORDS == {"credit services", "financial conglomerates", "mortgage finance",
                  "housing finance", "infrastructure finance", "power finance",
                  "financial data", "capital markets"}

\* str.lower() on the sector and industry names of the model
Lower(text) ==
    CASE text = "Banks - Regional" -> "banks - regional"
      [] text = "Credit Services" -> "credit services"
      [] text = "Consumer Credit" -> "consumer credit"
      [] text = "Financial Services" -> "financial services"
      [] text = "Software" -> "software"
      [] text = "Technology" -> "technology"
      [] text = "Unknown" -> "unknown"
      [] OTHER -> text

\* Python `kw in text` on those lower-cased names
Contains(text, kw) ==
    \/ text = kw
    \/ text = "banks - regional" /\ kw = "bank"
    \/ text = "credit services" /\ kw = "credit"
    \/ text = "consumer credit" /\ kw = "credit"
    \/ text = "financial services" /\ kw = "financial"

detect_sector_type(fundamentals) ==
    LET industry == IF fundamentals["industry"] = None THEN ""
                    ELSE Lower(Val(fundamentals["industry"]))
        sector == IF fundamentals["sector"] = None THEN ""
                  ELSE Lower(Val(fundamentals["sector"]))
    IN  IF \E kw \in BANKING_KEYWORDS : Contains(industry, kw) THEN "banking"
        ELSE IF \E kw \in NBFC_KEYWORDS : Contains(industry, kw) THEN "nbfc"
        ELSE IF Contains(sector, "financial")
                /\ (Contains(industry, "bank") \/ Contains(industry, "credit"))
        THEN "nbfc"
        ELSE "general"

----------------------------------------------------------------------------
(* RED FLAGS CHECK                                                         *)

FlagNegativeOCF == "Negative Operating Cash Flow"
FlagExtremeDebt == "Extreme Debt/Equity"
FlagNegativeROE == "Negative ROE"
FlagLowPromoter == "Very low promoter holding"
FlagLowInsider  == "Very low insider holding"

\* Python `needle in flag` for the two needles of has_critical
FlagContains(flag, needle) ==
    \/ needle = "Extreme Debt" /\ flag = FlagExtremeDebt
    \/ needle = "Negative ROE" /\ flag = FlagNegativeROE

has_critical(flags) ==
    \E i \in 1..Len(flags) :
        \/ FlagContains(flags[i], "Extreme Debt")
        \/ FlagContains(flags[i], "Negative ROE")

\* Negative OCF (skipped for banking/NBFC)
ocf_flag_any_sector(f, sector) ==
    LET ocf == f["ocf"]
    IN  IF ocf /= None /\ Val(ocf) < 0 THEN <<FlagNegativeOCF>> ELSE <<>>

ocf_flag(f, sector) ==
    LET ocf == f["ocf"]
    IN  IF ocf /= None /\ Val(ocf) < 0 /\ sector \notin {"banking", "nbfc"}
        THEN <<FlagNegativeOCF>> ELSE <<>>

\* Debt > 3x (skipped for banking/NBFC)
debt_flag(f, sector) ==
    LET de == f["de_ratio"]
    IN  IF de /= None /\ Val(de) > H(3) /\ sector \notin {"banking", "nbfc"}
        THEN <<FlagExtremeDebt>> ELSE <<>>

roe_flag(f) ==
    LET roe == f["roe"]
    IN  IF roe /= None /\ Val(roe) < 0 THEN <<FlagNegativeROE>> ELSE <<>>

\* Very low promoter holding (skipped when FII + DII reach 70%)
holding_flag_truthy(f) ==
    LET promoter == Or(f["promoter_holding"], f["insider_pct"])
        fii == IF Truthy(f["fii_holding"]) THEN Val(f["fii_holding"]) ELSE 0
        dii == IF Truthy(f["dii_holding"]) THEN Val(f["dii_holding"]) ELSE 0
        institutional == fii + dii
    IN  IF Truthy(promoter) /\ Val(promoter) < H(10) /\ institutional < H(70)
        THEN IF f["promoter_holding"] /= None
             THEN <<FlagLowPromoter>> ELSE <<FlagLowInsider>>
        ELSE <<>>

holding_flag(f) ==
    LET promoter == Or(f["promoter_holding"], f["insider_pct"])
        fii == IF Truthy(f["fii_holding"]) THEN Val(f["fii_holding"]) ELSE 0
        dii == IF Truthy(f["dii_holding"]) THEN Val(f["dii_holding"]) ELSE 0
        institutional == fii + dii
    IN  IF promoter /= None /\ Val(promoter) < H(10) /\ institutional < H(70)
        THEN IF f["promoter_holding"] /= None
             THEN <<FlagLowPromoter>> ELSE <<FlagLowInsider>>
        ELSE <<>>

check_red_flags(f, sector) ==
    LET flags == ocf_flag(f, sector) \o debt_flag(f, sector) \o roe_flag(f)
                 \o holding_flag(f)
    IN  [flags |-> flags, count |-> Len(flags), critical |-> has_critical(flags)]

----------------------------------------------------------------------------
(* GATE 1: FUNDAMENTAL CHECKLIST (10-Point)                                *)

\* variant: a failed criterion is not counted as assessed
Item_fail_unassessed(passed) ==
    [pass |-> Some(passed), score |-> IF passed THEN 1 ELSE 0,
     assessed |-> IF passed THEN 1 ELSE 0]

\* one assessed criterion: {'pass': passed}; if passed: score += 1; assessed += 1
Item(passed) ==
    [pass |-> Some(passed), score |-> IF passed THEN 1 ELSE 0, assessed |-> 1]

\* one criterion without data: {'pass': None}, counters untouched
ItemNA == [pass |-> None, score |-> 0, assessed |-> 0]

\* an exception leaving the function
Raise(name) == [exception |-> name]
Raised(result) == "exception" \in DOMAIN result

\* variant: the pass ratio is taken without the `assessed >= 5` guard
gate1_summary_unguarded_ratio(checklist, score, assessed) ==
    LET normalized_score == IF assessed > 0
                            THEN RoundDiv(score * 100, assessed)
                            ELSE 0
        max_assessed == IF assessed > 1 THEN assessed ELSE 1
    IN  IF assessed = 0
        THEN Raise("ZeroDivisionError")
        ELSE [checklist  |-> checklist,
              score      |-> score,
              assessed   |-> assessed,
              total      |-> 10,
              normalized |-> normalized_score,
              pass_rate  |-> RoundDiv(score * 1000, max_assessed),
              gate_pass  |-> score * 10 >= 7 * assessed \/ score >= 7]

\* normalisation and gate decision shared by both rubrics
\* variant: six passed criteria pass the gate whatever was assessed
gate1_summary_six_pass(checklist, score, assessed) ==
    LET divides_norm == assessed > 0
        divides_gate == assessed >= 5
        normalized_score == IF assessed > 0
                            THEN RoundDiv(score * 100, assessed)
                            ELSE 0
        gate_pass == (assessed >= 5 /\ score * 10 >= 7 * assessed) \/ score >= 6
        max_assessed == IF assessed > 1 THEN assessed ELSE 1
    IN  IF (divides_norm \/ divides_gate) /\ assessed = 0
        THEN Raise("ZeroDivisionError")
        ELSE [checklist  |-> checklist,
              score      |-> score,
              assessed   |-> assessed,
              total      |-> 10,
              normalized |-> normalized_score,
              pass_rate  |-> RoundDiv(score * 1000, max_assessed),
              gate_pass  |-> gate_pass]

gate1_summary(checklist, score, assessed) ==
    LET divides_norm == assessed > 0    \* score / assessed is evaluated under this guard
        divides_gate == assessed >= 5   \* `and` evaluates score / assessed only then
        normalized_score == IF assessed > 0
                            THEN RoundDiv(score * 100, assessed)
                            ELSE 0
        gate_pass == (assessed >= 5 /\ score * 10 >= 7 * assessed) \/ score >= 7
        max_assessed == IF assessed > 1 THEN assessed ELSE 1
    IN  IF (divides_norm \/ divides_gate) /\ assessed = 0
        THEN Raise("ZeroDivisionError")
        ELSE [checklist  |-> checklist,
              score      |-> score,
              assessed   |-> assessed,
              total      |-> 10,
              normalized |-> normalized_score,
              pass_rate  |-> RoundDiv(score * 1000, max_assessed),
              gate_pass  |-> gate_pass]

\* checklist and counters from the ten criteria in evaluation order; the
\* checklist dict is kept as its (key, pass) entries in insertion order
gate1_collect(keys, items) ==
    gate1_summary([i \in 1..10 |-> [key |-> keys[i], pass |-> items[i].pass]],
                  items[1].score + items[2].score + items[3].score + items[4].score
                      + items[5].score + items[6].score + items[7].score
                      + items[8].score + items[9].score + items[10].score,
                  items[1].assessed + items[2].assessed + items[3].assessed
                      + items[4].assessed + items[5].assessed + items[6].assessed
                      + items[7].assessed + items[8].assessed + items[9].assessed
                      + items[10].assessed)

BankingKeys == <<"1_roe", "2_roa", "3_gnpa", "4_nnpa", "5_rev_growth",
                 "6_pat_growth", "7_promoter", "8_dividend", "9_pe_value",
                 "10_pb_value">>

banking_fundamental_checklist(f, sector) ==
    LET roe == f["roe"]
        roa == f["roa"]
        gnpa == f["gnpa"]
        nnpa == f["nnpa"]
        pb == f["pb"]
        rev_cagr == f["rev_cagr_3y"]
        pat_cagr == f["pat_cagr_3y"]
        promoter == Or(f["promoter_holding"], f["insider_pct"])
        threshold == IF sector = "banking" THEN H(20) ELSE H(50)
        dy == f["dividend_yield"]
        pe == f["pe"]
        c1 == IF roe /= None THEN Item(Val(roe) > H(12)) ELSE ItemNA
        c2 == IF roa /= None THEN Item(Val(roa) > H(1)) ELSE ItemNA
        c3 == IF gnpa /= None THEN Item(Val(gnpa) < H(3))
              ELSE IF pb /= None THEN Item(Val(pb) < H(3))
              ELSE ItemNA
        c4 == IF nnpa /= None THEN Item(Val(nnpa) < 150)
              ELSE IF pb /= None THEN Item(Val(pb) < H(3))
              ELSE ItemNA
        c5 == IF rev_cagr /= None THEN Item(Val(rev_cagr) > H(10)) ELSE ItemNA
        c6 == IF pat_cagr /= None THEN Item(Val(pat_cagr) > H(12)) ELSE ItemNA
        c7 == IF promoter /= None THEN Item(Val(promoter) >= threshold) ELSE ItemNA
        c8 == IF dy /= None THEN Item(Val(dy) > 50) ELSE ItemNA
        c9 == IF pe /= None THEN Item(Val(pe) < H(20)) ELSE ItemNA
        c10 == IF pb /= None THEN Item(Val(pb) < H(3)) ELSE ItemNA
    IN  gate1_collect(BankingKeys, <<c1, c2, c3, c4, c5, c6, c7, c8, c9, c10>>)

GeneralKeys == <<"1_profit_margin", "2_roe", "3_roce", "4_debt_equity",
                 "5_interest_coverage", "6_ocf", "7_rev_growth",
                 "8_pat_growth", "9_promoter", "10_fcf">>

\* QoQ growth given as a fraction (|x| < 5) is scaled to percent
qoq_pct(g) == IF Abs(g) < H(5) THEN g * 100 ELSE g

apply_fundamental_checklist(f, sector) ==
    IF sector \in {"banking", "nbfc"}
    THEN banking_fundamental_checklist(f, sector)
    ELSE
    LET margin == Or(f["gross_margin"], f["operating_margin"])
        roe == f["roe"]
        roce == f["roce"]
        roa == f["roa"]
        de == f["de_ratio"]
        ocf == f["ocf"]
        debt == f["total_debt"]
        rev_cagr == f["rev_cagr_3y"]
        rg == f["revenue_growth_qoq"]
        pat_cagr == f["pat_cagr_3y"]
        eg == f["earnings_growth_qoq"]
        promoter == Or(f["promoter_holding"], f["insider_pct"])
        fcf == f["fcf"]
        c1 == IF margin /= None THEN Item(Val(margin) > H(20)) ELSE ItemNA
        c2 == IF roe /= None THEN Item(Val(roe) > H(15)) ELSE ItemNA
        c3 == IF roce /= None THEN Item(Val(roce) > H(15))
              ELSE IF roa /= None THEN Item(Val(roa) > H(5))
              ELSE IF roe /= None /\ Val(roe) > H(20) THEN Item(TRUE)
              ELSE ItemNA
        c4 == IF de /= None THEN Item(Val(de) < H(1)) ELSE ItemNA
        \* coverage = ocf / (debt * 0.08) > 3, i.e. 25 * ocf > 6 * debt
        c5 == IF de /= None /\ Val(de) < 5 THEN Item(TRUE)
              ELSE IF ocf /= None /\ debt /= None /\ Val(debt) > 0
                   THEN Item(25 * Val(ocf) > 6 * Val(debt))
              ELSE ItemNA
        c6 == IF ocf /= None THEN Item(Val(ocf) > 0) ELSE ItemNA
        c7 == IF rev_cagr /= None THEN Item(Val(rev_cagr) > H(10))
              ELSE IF rg /= None THEN Item(qoq_pct(Val(rg)) > H(10))
              ELSE ItemNA
        c8 == IF pat_cagr /= None THEN Item(Val(pat_cagr) > H(12))
              ELSE IF eg /= None THEN Item(qoq_pct(Val(eg)) > H(12))
              ELSE ItemNA
        c9 == IF promoter /= None THEN Item(Val(promoter) > H(50)) ELSE ItemNA
        c10 == IF fcf /= None THEN Item(Val(fcf) > 0) ELSE ItemNA
    IN  gate1_collect(GeneralKeys, <<c1, c2, c3, c4, c5, c6, c7, c8, c9, c10>>)

----------------------------------------------------------------------------
(* GATE 2: VALUATION FILTER                                                *)

\* variant: a signal sum of zero is no longer FAIR
valuation_verdict_fair_above_zero(scores, details, peg) ==
    IF scores = <<>>
    THEN [verdict   |-> "N/A",
          details   |-> <<"Insufficient valuation data">>,
          score_sum |-> 0,
          gate_pass |-> None,
          peg       |-> peg]
    ELSE LET total == SumSeq(scores)
             val_verdict == IF total >= 3 THEN "CHEAP"
                            ELSE IF total > 0 THEN "FAIR"
                            ELSE IF total >= -2 THEN "RICH"
                            ELSE "EXTREME"
         IN  [verdict   |-> val_verdict,
              details   |-> details,
              score_sum |-> total,
              gate_pass |-> Some(total > 0),
              peg       |-> peg]

\* variant: a sum that is not negative is FAIR or CHEAP only when no lens
\* gave a negative signal
valuation_verdict_negative_veto(scores, details, peg) ==
    IF scores = <<>>
    THEN [verdict   |-> "N/A",
          details   |-> <<"Insufficient valuation data">>,
          score_sum |-> 0,
          gate_pass |-> None,
          peg       |-> peg]
    ELSE LET total == SumSeq(scores)
             veto == \E k \in 1..Len(scores) : scores[k] < 0
             val_verdict == IF total >= 3 /\ ~veto THEN "CHEAP"
                            ELSE IF total >= 0 /\ ~veto THEN "FAIR"
                            ELSE IF total >= -2 THEN "RICH"
                            ELSE "EXTREME"
         IN  [verdict   |-> val_verdict,
              details   |-> details,
              score_sum |-> total,
              gate_pass |-> Some(total >= 0 /\ ~veto),
              peg       |-> peg]

\* verdict and gate decision from the list of lens signals
valuation_verdict(scores, details, peg) ==
    IF scores = <<>>
    THEN [verdict   |-> "N/A",
          details   |-> <<"Insufficient valuation data">>,
          score_sum |-> 0,
          gate_pass |-> None,
          peg       |-> peg]
    ELSE LET total == SumSeq(scores)
             val_verdict == IF total >= 3 THEN "CHEAP"
                            ELSE IF total >= 0 THEN "FAIR"
                            ELSE IF total >= -2 THEN "RICH"
                            ELSE "EXTREME"
             gate_pass == IF total >= 3 THEN TRUE
                          ELSE IF total >= 0 THEN TRUE
                          ELSE IF total >= -2 THEN FALSE
                          ELSE FALSE
         IN  [verdict   |-> val_verdict,
              details   |-> details,
              score_sum |-> total,
              gate_pass |-> Some(gate_pass),
              peg       |-> peg]

\* a lens outcome: the detail line it appends and the signal (if any)
Lens(detail, signal) == [details |-> <<detail>>, scores |-> <<signal>>]
LensDetail(detail) == [details |-> <<detail>>, scores |-> <<>>]
LensNone == [details |-> <<>>, scores |-> <<>>]

\* variant: a PEG of exactly 0.5 still counts as very cheap
peg_lens_half_very_cheap(peg) ==
    IF peg /= None
    THEN IF Val(peg) <= 50 THEN Lens("PEG (Very Cheap)", 2)
         ELSE IF Val(peg) < H(1) THEN Lens("PEG (Cheap)", 1)
         ELSE IF Val(peg) <= H(2) THEN Lens("PEG (Fair)", 0)
         ELSE IF Val(peg) <= H(5) THEN Lens("PEG (Expensive)", -1)
         ELSE Lens("PEG (Extreme)", -2)
    ELSE LensNone

\* the PEG lens: the tier of the rounded PEG, nothing without a PEG
peg_lens(peg) ==
    IF peg /= None
    THEN IF Val(peg) < 50 THEN Lens("PEG (Very Cheap)", 2)
         ELSE IF Val(peg) < H(1) THEN Lens("PEG (Cheap)", 1)
         ELSE IF Val(peg) <= H(2) THEN Lens("PEG (Fair)", 0)
         ELSE IF Val(peg) <= H(5) THEN Lens("PEG (Expensive)", -1)
         ELSE Lens("PEG (Extreme)", -2)
    ELSE LensNone

assess_valuation(f, sector) ==
    LET pe == f["pe"]
        pb == f["pb"]
        roe == f["roe"]
        pat_cagr == f["pat_cagr_3y"]
        eg == f["earnings_growth_qoq"]
        dy == IF Truthy(f["dividend_yield"]) THEN Val(f["dividend_yield"]) ELSE 0
        ev_ebitda == f["ev_ebitda"]
        \* growth = pat_cagr or (earnings_growth_qoq or 0) * 100
        growth == IF Truthy(pat_cagr) THEN Val(pat_cagr)
                  ELSE (IF Truthy(eg) THEN Val(eg) ELSE 0) * 100
        has_peg == Truthy(pe) /\ growth /= 0 /\ growth > 0
        peg == IF has_peg THEN Some(RoundDiv(100 * Val(pe), growth)) ELSE None
        thresholds == IF sector = "banking"
                      THEN <<H(10), H(15), H(25)>>
                      ELSE <<H(15), H(25), H(40)>>
        pe_lens ==
            IF pe /= None
            THEN IF Val(pe) < thresholds[1] THEN Lens("P/E (Cheap)", 1)
                 ELSE IF Val(pe) < thresholds[2] THEN Lens("P/E (Fair)", 0)
                 ELSE IF Val(pe) < thresholds[3] THEN Lens("P/E (Expensive)", -1)
                 ELSE Lens("P/E (Very Expensive)", -2)
            ELSE LensNone
        pb_lens ==
            IF pb /= None /\ roe /= None
            THEN IF sector \in {"banking", "nbfc"}
                 THEN IF Val(pb) < 150 /\ Val(roe) > H(15)
                      THEN Lens("P/B with ROE (Value)", 2)
                      ELSE IF Val(pb) < 250 /\ Val(roe) > H(12)
                      THEN Lens("P/B with ROE (Fair)", 0)
                      ELSE Lens("P/B with ROE (Expensive)", -1)
                 ELSE IF Val(pb) < H(3) /\ Val(roe) > H(15)
                      THEN Lens("P/B with ROE (Reasonable)", 1)
                      ELSE IF Val(pb) < H(6) /\ Val(roe) > H(20)
                      THEN Lens("P/B with ROE (Fair for high-ROE)", 0)
                      ELSE IF Val(pb) < H(8)
                      THEN Lens("P/B (Expensive)", -1)
                      ELSE Lens("P/B (Very Expensive)", -2)
            ELSE IF pb /= None THEN LensDetail("P/B")
            ELSE LensNone
        \* ey = round(100 / pe, 2); bond_yield = 7
        ey == RoundDiv(1000000, Val(pe))
        ey_lens ==
            IF Truthy(pe) /\ Val(pe) > 0
            THEN IF ey > 1050 THEN Lens("Earnings Yield (Attractive)", 1)
                 ELSE IF ey > H(7) THEN Lens("Earnings Yield (OK)", 0)
                 ELSE Lens("Earnings Yield (Unattractive)", -1)
            ELSE LensNone
        dy_lens ==
            IF dy /= 0 /\ dy > H(3) THEN Lens("Div Yield (Strong income)", 1)
            ELSE IF dy /= 0 /\ dy > 150 THEN LensDetail("Div Yield")
            ELSE LensNone
        ev_lens ==
            IF ev_ebitda /= None
            THEN IF Val(ev_ebitda) < H(10) THEN Lens("EV/EBITDA (Cheap)", 1)
                 ELSE IF Val(ev_ebitda) < H(20) THEN Lens("EV/EBITDA (Fair)", 0)
                 ELSE Lens("EV/EBITDA (Expensive)", -1)
            ELSE LensNone
        lenses == <<peg_lens(peg), pe_lens, pb_lens, ey_lens, dy_lens, ev_lens>>
        scores == lenses[1].scores \o lenses[2].scores \o lenses[3].scores \o
                  lenses[4].scores \o lenses[5].scores \o lenses[6].scores
        details == lenses[1].details \o lenses[2].details \o lenses[3].details \o
                   lenses[4].details \o lenses[5].details \o lenses[6].details
    IN  valuation_verdict(scores, details, peg)

----------------------------------------------------------------------------
(* TECHNICAL ANALYSIS METHODS                                              *)

\* A price series enters through the aggregates the methods read:
\*   high_52w, low_52w  max High / min Low of the whole series
\*   high_20, low_20    max High / min Low of data.tail(20)
\*   close              data['Close'].iloc[-1]
\*   ind.delta          data['Close'].diff() over the latest 14 sessions
\*   ind.volume_nan     data['Volume'].iloc[-1] is NaN (no volume reported)
\* a float that may be NaN
Num(v) == [nan |-> FALSE, value |-> v]
NaN == [nan |-> TRUE, value |-> 0]

\* Python `x < bound`: False when x is NaN
float_lt(x, bound) == ~x.nan /\ x.value < bound

RsiPeriod == 14

\* the sums of the rolling window; the division by the period cancels in
\* gain / loss
calculate_rsi(d) ==
    LET delta == d.ind.delta
        gain == SumSeq([i \in 1..RsiPeriod |-> IF delta[i] > 0 THEN delta[i] ELSE 0])
        loss == SumSeq([i \in 1..RsiPeriod |-> IF delta[i] < 0 THEN -delta[i] ELSE 0])
    IN  IF loss = 0
        THEN IF gain = 0
             THEN NaN            \* rs = 0 / 0
             ELSE Num(H(100))    \* rs = inf, 100 / (1 + rs) = 0
        \* 100 - 100 / (1 + gain / loss) = 100 * gain / (gain + loss)
        ELSE Num(RoundDiv(H(100) * gain, gain + loss))

\* variant: the first support mirrors the pivot on the low, as the resistance does
find_support_resistance_from_low(d) ==
    LET high_52w == d.high_52w
        low_52w == d.low_52w
        current == d.close
        recent_high == d.high_20
        recent_low == d.low_20
        \* pivot = pivot3 / 3; every level is rounded to 2 decimals
        pivot3 == recent_high + recent_low + d.close
    IN  [52w_high             |-> round2(high_52w),
         52w_low              |-> round2(low_52w),
         immediate_support    |-> RoundDiv(2 * pivot3 - 3 * recent_low, 30),
         immediate_resistance |-> RoundDiv(2 * pivot3 - 3 * recent_low, 30),
         strong_support       |-> RoundDiv(pivot3 - 3 * (recent_high - recent_low), 30),
         strong_resistance    |-> RoundDiv(pivot3 + 3 * (recent_high - recent_low), 30),
         distance_from_high   |-> RoundDiv((high_52w - current) * 10000, current),
         distance_from_low    |-> RoundDiv((current - low_52w) * 10000, low_52w)]

find_support_resistance(d) ==
    LET high_52w == d.high_52w
        low_52w == d.low_52w
        current == d.close
        recent_high == d.high_20
        recent_low == d.low_20
        \* pivot = pivot3 / 3; every level is rounded to 2 decimals
        pivot3 == recent_high + recent_low + d.close
    IN  [52w_high             |-> round2(high_52w),
         52w_low              |-> round2(low_52w),
         immediate_support    |-> RoundDiv(2 * pivot3 - 3 * recent_high, 30),
         immediate_resistance |-> RoundDiv(2 * pivot3 - 3 * recent_low, 30),
         strong_support       |-> RoundDiv(pivot3 - 3 * (recent_high - recent_low), 30),
         strong_resistance    |-> RoundDiv(pivot3 + 3 * (recent_high - recent_low), 30),
         distance_from_high   |-> RoundDiv((high_52w - current) * 10000, current),
         distance_from_low    |-> RoundDiv((current - low_52w) * 10000, low_52w)]

calculate_rrr(current, support, resistance) ==
    LET risk == current - support
        reward == resistance - current
    IN  IF risk <= 0
        THEN [rrr |-> 0, risk_pct |-> 0, reward_pct |-> 0, valid |-> FALSE]
        ELSE [rrr        |-> RoundDiv(100 * reward, risk),
              risk_pct   |-> RoundDiv(risk * 10000, current),
              reward_pct |-> RoundDiv(reward * 10000, current),
              valid      |-> 2 * reward >= 3 * risk]     \* rrr >= 1.5

\* int(current_volume) raises on a NaN volume
analyze_volume(d) ==
    IF d.ind.volume_nan THEN Raise("ValueError")
    ELSE [above_average |-> d.ind.above_average]

\* the `technical` dict assembled by analyze_stock; d.ind carries the
\* readings of the indicator methods (RSI, MACD, averages, volume, candles)
technical_snapshot(d) ==
    LET sr == find_support_resistance(d)
        ind == d.ind
        volume == analyze_volume(d)
    IN  IF Raised(volume) THEN volume ELSE
        [rsi                |-> calculate_rsi(d),
         macd               |-> [bullish |-> ind.macd_bullish],
         moving_averages    |-> [current_price |-> round2(d.close),
                                 above_50_dma  |-> ind.above_50_dma,
                                 above_200_dma |-> ind.above_200_dma],
         support_resistance |-> sr,
         volume             |-> volume,
         candlestick        |-> [patterns    |-> ind.patterns,
                                 prior_trend |-> ind.prior_trend],
         rrr                |-> calculate_rrr(round2(d.close), sr.immediate_support,
                                              sr.immediate_resistance)]

----------------------------------------------------------------------------
(* GATE 3: TECHNICAL CHECKLIST (7-Point)                                   *)

PatternNames == {"Doji", "Hammer (Bullish)", "Inverted Hammer",
                 "Bullish Marubozu", "Bearish Marubozu",
                 "Bullish Engulfing", "Bearish Engulfing"}

NoPattern == {"No clear pattern"}

\* the names one candle adds to the scan
candle_patterns(candle) ==
    LET body == Abs(candle.Close - candle.Open)
        upper_shadow == candle.High - (IF candle.Close > candle.Open THEN candle.Close ELSE candle.Open)
        lower_shadow == (IF candle.Close < candle.Open THEN candle.Close ELSE candle.Open) - candle.Low
        total_range == candle.High - candle.Low
    IN  IF total_range = 0 THEN {}
        \* body / total_range < 0.1
        ELSE IF 10 * body < total_range THEN {"Doji"}
        \* lower_shadow > 2 * body and upper_shadow < body * 0.5
        ELSE IF lower_shadow > 2 * body /\ 2 * upper_shadow < body
             THEN IF candle.Close > candle.Open THEN {"Hammer (Bullish)"}
                  ELSE {"Inverted Hammer"}
        \* body / total_range > 0.9
        ELSE IF 10 * body > 9 * total_range
             THEN IF candle.Close > candle.Open THEN {"Bullish Marubozu"}
                  ELSE {"Bearish Marubozu"}
        ELSE {}

\* the names the last two candles add together
engulfing_patterns(prev, curr) ==
    (IF /\ prev.Close < prev.Open /\ curr.Close > curr.Open
        /\ curr.Open < prev.Close /\ curr.Close > prev.Open
     THEN {"Bullish Engulfing"} ELSE {})
    \cup
    (IF /\ prev.Close > prev.Open /\ curr.Close < curr.Open
        /\ curr.Open > prev.Close /\ curr.Close < prev.Open
     THEN {"Bearish Engulfing"} ELSE {})

\* recent: the last three candles, oldest first; close_20: the close twenty
\* rows from the end, None for a frame of fewer than twenty rows
detect_candlestick_pattern(recent, close_20) ==
    LET n == Len(recent)
        patterns == UNION {candle_patterns(recent[i]) : i \in (n - 2)..n}
                    \cup engulfing_patterns(recent[n - 1], recent[n])
    IN  [patterns    |-> IF patterns /= {} THEN patterns ELSE NoPattern,
         prior_trend |-> IF close_20 /= None
                         THEN IF recent[n].Close > Val(close_20) THEN "Uptrend"
                              ELSE "Downtrend"
                         ELSE "Unknown"]

\* Python `p in str(patterns)`: p is a substring of some listed name
InStr(p, patterns) ==
    \/ p = "Hammer" /\ patterns \cap {"Hammer (Bullish)", "Inverted Hammer"} /= {}
    \/ p \in patterns

bullish_p == <<"Hammer", "Bullish Engulfing", "Bullish Marubozu",
               "Morning Star", "Inverted Hammer">>
bearish_p == <<"Bearish Engulfing", "Bearish Marubozu", "Evening Star">>

\* gate decision and result dict of the technical checklist
gate3_summary_pass_above_5(checklist, score) ==
    [checklist |-> checklist,
     score     |-> score,
     total     |-> 7,
     pass_rate |-> RoundDiv(score * 1000, 7),
     gate_pass |-> score > 5]

gate3_summary(checklist, score) ==
    [checklist |-> checklist,
     score     |-> score,
     total     |-> 7,
     pass_rate |-> RoundDiv(score * 1000, 7),
     gate_pass |-> score >= 5]

apply_checklist(analysis) ==
    LET patterns == analysis.candlestick.patterns
        has_pattern == patterns /= NoPattern
        prior_trend == analysis.candlestick.prior_trend
        trend_valid ==
            IF ~has_pattern THEN FALSE
            ELSE IF \E i \in 1..Len(bullish_p) : InStr(bullish_p[i], patterns)
                 THEN prior_trend = "Downtrend"
            ELSE IF \E i \in 1..Len(bearish_p) : InStr(bearish_p[i], patterns)
                 THEN prior_trend = "Uptrend"
            ELSE TRUE
        sr == analysis.support_resistance
        current == analysis.moving_averages.current_price
        \* support_dist = abs(current - support) / current * 100 <= 4
        sr_valid == 100 * Abs(current - sr.immediate_support) <= 4 * current
        vol_valid == analysis.volume.above_average
        rrr == analysis.rrr
        macd_ok == analysis.macd.bullish
        rsi_not_overbought == float_lt(analysis.rsi, H(70))
        indicators_ok == macd_ok /\ rsi_not_overbought
        ma == analysis.moving_averages
        dow_valid == ma.above_50_dma /\
                     (IF ma.above_200_dma /= None THEN Val(ma.above_200_dma) ELSE TRUE)
        passes == <<has_pattern, trend_valid, sr_valid, vol_valid, rrr.valid,
                    indicators_ok, dow_valid>>
        score == SumSeq([i \in 1..7 |-> IF passes[i] THEN 1 ELSE 0])
    IN  gate3_summary(passes, score)

----------------------------------------------------------------------------
(* COMBINED VERDICT (ALL 3 GATES)                                          *)

\* the human-readable action: its fixed wording and the values formatted in
Action(text, args) == [text |-> text, args |-> args]

Row(v, c, pct, action) ==
    [verdict |-> v, confidence |-> c, position_pct |-> pct, action |-> action]

\* Red flag override
verdict_red_flag(flags_res) ==
    Row("AVOID", "HIGH", 0, Action("Critical red flags", Prefix(flags_res.flags, 2)))

\* variant: HIGH confidence already from a normalized score of 7.0
verdict_all_pass_norm7(fund_norm, tech_score, val_verdict, current, sr) ==
    IF fund_norm >= 70 /\ tech_score >= 6 /\ val_verdict \in {"CHEAP", "FAIR"}
    THEN Row("BUY", "HIGH", 8,
             Action("Strong setup. Enter at, SL at", <<current, sr.immediate_support>>))
    ELSE Row("BUY", "MEDIUM", 5, Action("Enter on dip to", <<sr.immediate_support>>))

\* All 3 gates pass
verdict_all_pass(fund_norm, tech_score, val_verdict, current, sr) ==
    IF fund_norm >= 80 /\ tech_score >= 6 /\ val_verdict \in {"CHEAP", "FAIR"}
    THEN Row("BUY", "HIGH", 8,
             Action("Strong setup. Enter at, SL at", <<current, sr.immediate_support>>))
    ELSE Row("BUY", "MEDIUM", 5, Action("Enter on dip to", <<sr.immediate_support>>))

\* variant: strict comparison on the technical score
verdict_tech_borderline_strict(tech_score, sr) ==
    IF tech_score > 4
    THEN Row("ACCUMULATE", "MEDIUM", 4,
             Action("Fundamentally strong. Accumulate on dips near",
                    <<sr.immediate_support>>))
    ELSE Row("WAIT", "LOW", 0,
             Action("Good business but poor timing. Wait for technical setup.", <<>>))

\* variant: accumulation already from a technical score of 3
verdict_tech_borderline_from_3(tech_score, sr) ==
    IF tech_score >= 3
    THEN Row("ACCUMULATE", "MEDIUM", 4,
             Action("Fundamentally strong. Accumulate on dips near",
                    <<sr.immediate_support>>))
    ELSE Row("WAIT", "LOW", 0,
             Action("Good business but poor timing. Wait for technical setup.", <<>>))

\* Fund + Val pass, Tech borderline
verdict_tech_borderline(tech_score, sr) ==
    IF tech_score >= 4
    THEN Row("ACCUMULATE", "MEDIUM", 4,
             Action("Fundamentally strong. Accumulate on dips near",
                    <<sr.immediate_support>>))
    ELSE Row("WAIT", "LOW", 0,
             Action("Good business but poor timing. Wait for technical setup.", <<>>))

\* variant: overvalued quality reported with LOW confidence
verdict_overvalued_low(val_verdict) ==
    Row("WAIT", "LOW", 0,
        Action("Quality stock but valuation. Wait for correction.", <<val_verdict>>))

\* Fund pass, Val fail (overvalued quality)
verdict_overvalued(val_verdict) ==
    Row("WAIT", "MEDIUM", 0,
        Action("Quality stock but valuation. Wait for correction.", <<val_verdict>>))

\* variant: research threshold one point lower
verdict_weak_quality_ge4(tech_score, fund_score, assessed) ==
    IF tech_score >= 4
    THEN Row("WAIT", "LOW", 0,
             Action("Cheap valuation but weak fundamentals. Needs more research.", <<>>))
    ELSE Row("AVOID", "MEDIUM", 0,
             Action("Weak fundamentals. Cheap for a reason.", <<fund_score, assessed>>))

\* Val pass, Fund fail (cheap but weak quality)
verdict_weak_quality(tech_score, fund_score, assessed) ==
    IF tech_score >= 5
    THEN Row("WAIT", "LOW", 0,
             Action("Cheap valuation but weak fundamentals. Needs more research.", <<>>))
    ELSE Row("AVOID", "MEDIUM", 0,
             Action("Weak fundamentals. Cheap for a reason.", <<fund_score, assessed>>))

\* Only Tech passes
verdict_only_tech ==
    Row("SKIP", "HIGH", 0,
        Action("Only technical signals, no fundamental/valuation support.", <<>>))

\* variant: the timing gate is never listed
verdict_failed_gates_no_timing(g1, g2, g3) ==
    LET failed_gates == (IF ~g1 THEN <<"Quality">> ELSE <<>>) \o
                        (IF ~g2 THEN <<"Valuation">> ELSE <<>>)
    IN  Row("AVOID", "HIGH", 0, Action("Failed gates", failed_gates))

\* the final else: list the gates that failed
verdict_failed_gates(g1, g2, g3) ==
    LET failed_gates == (IF ~g1 THEN <<"Quality">> ELSE <<>>) \o
                        (IF ~g2 THEN <<"Valuation">> ELSE <<>>) \o
                        (IF ~g3 THEN <<"Timing">> ELSE <<>>)
    IN  Row("AVOID", "HIGH", 0, Action("Failed gates", failed_gates))

\* variant: stop placed at the immediate support
trade_setup_for_tight_stop(row, current, sr) ==
    IF row.verdict \in {"BUY", "ACCUMULATE"}
    THEN Some([entry        |-> IF row.verdict = "BUY" /\ row.confidence = "HIGH"
                                THEN current ELSE sr.immediate_support,
               stoploss     |-> sr.immediate_support,
               target_1     |-> sr.immediate_resistance,
               target_2     |-> sr.strong_resistance,
               target_3     |-> sr.52w_high,
               position_pct |-> row.position_pct])
    ELSE None

\* Trade setup
trade_setup_for(row, current, sr) ==
    IF row.verdict \in {"BUY", "ACCUMULATE"}
    THEN Some([entry        |-> IF row.verdict = "BUY" /\ row.confidence = "HIGH"
                                THEN current ELSE sr.immediate_support,
               stoploss     |-> sr.strong_support,
               target_1     |-> sr.immediate_resistance,
               target_2     |-> sr.strong_resistance,
               target_3     |-> sr.52w_high,
               position_pct |-> row.position_pct])
    ELSE None

\* variant: the red flag test comes after the all-pass row
verdict_row_red_flag_late(has_red, g1, g2, g3) ==
    IF g1 /\ g2 /\ g3 THEN 2
    ELSE IF has_red THEN 1
    ELSE IF g1 /\ g2 /\ ~g3 THEN 3
    ELSE IF g1 /\ ~g2 THEN 4
    ELSE IF g2 /\ ~g1 THEN 5
    ELSE IF g3 /\ ~g1 /\ ~g2 THEN 6
    ELSE 7

\* the if / elif chain selecting the row of the decision table
verdict_row(has_red, g1, g2, g3) ==
    IF has_red THEN 1
    ELSE IF g1 /\ g2 /\ g3 THEN 2
    ELSE IF g1 /\ g2 /\ ~g3 THEN 3
    ELSE IF g1 /\ ~g2 THEN 4
    ELSE IF g2 /\ ~g1 THEN 5
    ELSE IF g3 /\ ~g1 /\ ~g2 THEN 6
    ELSE 7

\* variant: only a valuation that was assessed and failed counts as failed
gate2_passed_unless_failed(val_res) == val_res.gate_pass /= Some(FALSE)

\* g2 in the truth tests of the chain: a null gate_pass is falsy
gate2_passed(val_res) == TruthyB(val_res.gate_pass)

generate_verdict(fund_res, val_res, tech_res, flags_res, analysis) ==
    LET current == analysis.moving_averages.current_price
        sr == analysis.support_resistance
        g1 == fund_res.gate_pass
        g2 == gate2_passed(val_res)
        g3 == tech_res.gate_pass
        has_red == flags_res.critical
        fund_score == fund_res.score
        fund_norm == fund_res.normalized
        tech_score == tech_res.score
        val_verdict == val_res.verdict
        branch == verdict_row(has_red, g1, g2, g3)
        row == CASE branch = 1 -> verdict_red_flag(flags_res)
                 [] branch = 2 -> verdict_all_pass(fund_norm, tech_score, val_verdict,
                                                   current, sr)
                 [] branch = 3 -> verdict_tech_borderline(tech_score, sr)
                 [] branch = 4 -> verdict_overvalued(val_verdict)
                 [] branch = 5 -> verdict_weak_quality(tech_score, fund_score,
                                                       fund_res.assessed)
                 [] branch = 6 -> verdict_only_tech
                 [] OTHER -> verdict_failed_gates(g1, g2, g3)
    IN  [verdict      |-> row.verdict,
         confidence   |-> row.confidence,
         action       |-> row.action,
         trade_setup  |-> trade_setup_for(row, current, sr),
         gates        |-> [fundamental |-> IF g1 THEN "PASS" ELSE "FAIL",
                           valuation   |-> val_verdict,
                           technical   |-> IF g3 THEN "PASS" ELSE "FAIL"],
         position_pct |-> row.position_pct]

----------------------------------------------------------------------------
(* MAIN ANALYSIS (3-GATE)                                                  *)

\* analyze_stock once the ticker is resolved: technical snapshot, the three
\* gates, the red flag scan and the combined verdict, in program order
RunGates(f, sector, d) ==
    /\ technical' = technical_snapshot(d)
    /\ IF Raised(technical')
       THEN \* the exception leaves analyze_stock before any gate runs
            /\ pc' = "raised"
            /\ UNCHANGED <<fund_result, val_result, red_flags, tech_result, verdict>>
       ELSE /\ fund_result' = apply_fundamental_checklist(f, sector)
            /\ IF Raised(fund_result')
               THEN \* the exception leaves analyze_stock; nothing after
                    \* Gate 1 runs
                    /\ pc' = "raised"
                    /\ UNCHANGED <<val_result, red_flags, tech_result, verdict>>
               ELSE /\ val_result' = assess_valuation(f, sector)
                    /\ red_flags' = check_red_flags(f, sector)
                    /\ tech_result' = apply_checklist(technical')
                    /\ verdict' = generate_verdict(fund_result', val_result',
                                                   tech_result', red_flags',
                                                   technical')
                    /\ pc' = "done"

\* analyze_stock from the fetched price series and fundamentals on
AnalyzeStock ==
    /\ pc = "start"
    /\ RunGates(fund, sector_type, data)
    /\ UNCHANGED <<symbol, provider, attempts, fund, sector_type, data>>
    /\ UNCHANGED taskvars
    /\ UNCHANGED papervars

\* analyze_stock from the requested symbol on
AnalyzeSymbol ==
    /\ pc = "request"
    /\ LET r == resolve_ticker(symbol, provider.history)
       IN  /\ attempts' = r.tried
           /\ IF Raised(r)
              THEN /\ pc' = "raised"
                   /\ UNCHANGED <<fund, sector_type, data, technical, fund_result,
                                  val_result, red_flags, tech_result, verdict>>
              ELSE IF r.ticker = None
              THEN \* `return None`: insufficient data
                   /\ pc' = "insufficient"
                   /\ UNCHANGED <<fund, sector_type, data, technical, fund_result,
                                  val_result, red_flags, tech_result, verdict>>
              ELSE LET resolved == Val(r.ticker)
                       screener == fetch_from_screener(resolved, provider.has_scraping,
                                                       provider.response)
                   IN  /\ fund' = get_fundamentals(provider.info, provider.cagr,
                                                   screener)
                       /\ sector_type' = detect_sector_type(fund')
                       /\ data' = provider.history[resolved.mark].data
                       /\ RunGates(fund', sector_type', data')
    /\ UNCHANGED <<symbol, provider>>
    /\ UNCHANGED taskvars
    /\ UNCHANGED papervars

\* what a call of analyze_stock gives its caller
ReturnsNone == [kind |-> "none"]
Raises(name) == [kind |-> "raise", exception |-> name]
Returns(analysis) == [kind |-> "analysis", analysis |-> analysis]

\* analyze_stock from Gate 2 on: the remaining gates, the red flags, the
\* combined verdict and the analysis dict
analysis_of(resolved, fundamentals, sector, tech, fr, vr, flags, cr) ==
    Returns([symbol             |-> resolved,
             sector_type        |-> sector,
             fundamentals       |-> fundamentals,
             fund_result        |-> fr,
             val_result         |-> vr,
             red_flags          |-> flags,
             rsi                |-> tech.rsi,
             macd               |-> tech.macd,
             moving_averages    |-> tech.moving_averages,
             support_resistance |-> tech.support_resistance,
             volume             |-> tech.volume,
             candlestick        |-> tech.candlestick,
             rrr                |-> tech.rrr,
             checklist_result   |-> cr,
             verdict            |-> generate_verdict(fr, vr, cr, flags, tech)])

\* analyze_stock from Gate 1 on
analyze_gates(resolved, fundamentals, sector, tech, fr) ==
    IF Raised(fr) THEN Raises(fr.exception)
    ELSE analysis_of(resolved, fundamentals, sector, tech, fr,
                     assess_valuation(fundamentals, sector),
                     check_red_flags(fundamentals, sector),
                     apply_checklist(tech))

\* analyze_stock from the technical indicators on
analyze_technical(resolved, fundamentals, sector, tech) ==
    IF Raised(tech) THEN Raises(tech.exception)
    ELSE analyze_gates(resolved, fundamentals, sector, tech,
                       apply_fundamental_checklist(fundamentals, sector))

\* analyze_stock once the fundamentals are fetched
analyze_fetched(resolved, fundamentals, d) ==
    analyze_technical(resolved, fundamentals, detect_sector_type(fundamentals),
                      technical_snapshot(d))

\* analyze_stock once _resolve_ticker has answered
analyze_resolved(r, prov) ==
    IF Raised(r) THEN Raises(r.exception)
    ELSE IF r.ticker = None THEN ReturnsNone
    ELSE analyze_fetched(Val(r.ticker),
             get_fundamentals(prov.info, prov.cagr,
                 fetch_from_screener(Val(r.ticker), prov.has_scraping, prov.response)),
             prov.history[Val(r.ticker).mark].data)

\* analyze_stock as its callers see it: None, an exception or the analysis
analyze_stock(sym, prov) == analyze_resolved(resolve_ticker(sym, prov.history), prov)

----------------------------------------------------------------------------
(* Input domains                                                           *)

MaxStep == 1        \* price grid: 100, 108, ... 100 + 8 * MaxStep

Prices == {Px(100) + Px(8) * k : k \in 0..MaxStep}

\* closes rising by g, falling by l and then unchanged: RSI 100 g / (g + l)
Moves(g, l) == <<H(g), -H(l)>> \o [i \in 1..(RsiPeriod - 2) |-> 0]

\* indicator readings in which the first k indicator criteria are favourable
Indicators(k) ==
    [delta         |-> IF k >= 4 THEN Moves(9, 11) ELSE Moves(3, 1),
     macd_bullish  |-> k >= 4,
     above_50_dma  |-> k >= 5,
     above_200_dma |-> IF k >= 5 THEN None ELSE Some(FALSE),
     above_average |-> k >= 3,
     volume_nan    |-> FALSE,
     patterns      |-> IF k >= 1 THEN {"Bullish Engulfing"} ELSE NoPattern,
     prior_trend   |-> IF k >= 2 THEN "Downtrend" ELSE "Uptrend"]

\* price series with Low <= Close <= High in every session
PriceData ==
    {[high_52w |-> h52, low_52w |-> l20, high_20 |-> h20, low_20 |-> l20,
      close |-> c, ind |-> Indicators(k)] :
        h52 \in Prices, h20 \in Prices, l20 \in Prices, c \in Prices, k \in 0..5}

ValidPriceData == {d \in PriceData : d.low_20 <= d.close /\ d.close <= d.high_20
                                     /\ d.high_20 <= d.high_52w}

\* fundamentals of the whole-analysis runs: per field, absent or a value on
\* either side of the thresholds that read it
AnalysisFunds ==
    {With(EmptyFund,
          [roe |-> roe, de_ratio |-> de,
           ocf |-> Some(1), rev_cagr_3y |-> rev, pat_cagr_3y |-> Some(H(24)),
           fcf |-> fcf, pe |-> pe, pb |-> pb]) :
        roe \in {Some(-H(5)), Some(H(10)), Some(H(25))},
        de \in {None, Some(2), Some(H(4))},
        rev \in {Some(H(5)), Some(H(15))},
        fcf \in {Some(-1), Some(1)},
        pe \in {None, Some(H(12)), Some(H(50))},
        pb \in {None, Some(H(1)), Some(H(9))}}

----------------------------------------------------------------------------
(* Whole analysis of one resolved symbol                                   *)

\* no symbol to resolve: the price series and the fundamentals are at hand
Resolved ==
    /\ symbol = None
    /\ provider = None
    /\ attempts = <<>>

\* the web application is not serving and no batch is running
NoTasks ==
    /\ tasks = [t \in {} |-> None]
    /\ tasks_lock = None
    /\ threads = [th \in {} |-> None]
    /\ clock = 0
    /\ analyzing = <<>>

\* the paper trader as constructed, before any order
NoPaper ==
    /\ paper_positions = [s \in {} |-> <<>>]
    /\ paper_orders = <<>>
    /\ placed = <<>>

Init ==
    /\ Resolved
    /\ NoTasks
    /\ NoPaper
    /\ pc = "start"
    /\ fund \in AnalysisFunds
    /\ sector_type \in SectorTypes
    /\ data \in ValidPriceData
    /\ technical = None
    /\ fund_result = None
    /\ val_result = None
    /\ red_flags = None
    /\ tech_result = None
    /\ verdict = None

Next == AnalyzeStock

Spec == Init /\ [][Next]_vars

----------------------------------------------------------------------------
(* Gate 1 and Gate 3 over their whole input space                          *)

MaxPatterns == 1    \* patterns reported together by the candlestick scan

\* a session is green or red, so the two engulfing patterns exclude each other
PatternSets ==
    {NoPattern} \cup
    {ps \in SUBSET PatternNames :
        /\ Cardinality(ps) >= 1 /\ Cardinality(ps) <= MaxPatterns
        /\ ~({"Bullish Engulfing", "Bearish Engulfing"} \subseteq ps)}

FlatData(ind) ==
    [high_52w |-> Px(100), low_52w |-> Px(100), high_20 |-> Px(100),
     low_20 |-> Px(100), close |-> Px(100), ind |-> ind]

\* the two closing prices of the checklist runs
ChecklistPrices == {Px(100), Px(108)}

\* every combination of indicator readings on every price shape
ChecklistData ==
    {[high_52w |-> h20, low_52w |-> l20, high_20 |-> h20, low_20 |-> l20, close |-> c,
      ind |-> [delta |-> delta, macd_bullish |-> macd, above_50_dma |-> a50,
               above_200_dma |-> a200, above_average |-> vol,
               volume_nan |-> FALSE,
               patterns |-> ps, prior_trend |-> trend]] :
        h20 \in ChecklistPrices, l20 \in ChecklistPrices, c \in ChecklistPrices,
        delta \in {Moves(1, 3), Moves(7, 3)}, macd \in BOOLEAN, a50 \in BOOLEAN,
        a200 \in {None, Some(FALSE), Some(TRUE)}, vol \in BOOLEAN,
        ps \in PatternSets, trend \in {"Uptrend", "Downtrend", "Unknown"}}

ValidChecklistData ==
    {d \in ChecklistData : d.low_20 <= d.close /\ d.close <= d.high_20}

\* general rubric, primary metrics: absent, failing and passing values
GeneralFunds ==
    {With(EmptyFund,
          [gross_margin |-> gm, roe |-> roe, roce |-> roce, de_ratio |-> de,
           ocf |-> ocf, total_debt |-> debt, rev_cagr_3y |-> rev,
           pat_cagr_3y |-> pat, promoter_holding |-> prom, fcf |-> fcf]) :
        gm \in {None, Some(H(20)), Some(H(25))},
        roe \in {None, Some(H(15)), Some(H(25))},
        roce \in {None, Some(H(10)), Some(H(20))},
        de \in {None, Some(2), Some(H(4))},
        ocf \in {None, Some(-1), Some(1)},
        debt \in {None, Some(1)},
        rev \in {None, Some(H(10)), Some(H(15))},
        pat \in {None, Some(H(12)), Some(H(15))},
        prom \in {None, Some(H(50)), Some(H(60))},
        fcf \in {None, Some(0), Some(1)}}

\* general rubric, fallback metrics: the primary metric absent or falsy
GeneralFallbackFunds ==
    {With(EmptyFund,
          [gross_margin |-> gm, operating_margin |-> om, roe |-> roe, roa |-> roa,
           de_ratio |-> de, ocf |-> ocf, total_debt |-> debt,
           revenue_growth_qoq |-> rg, earnings_growth_qoq |-> eg,
           promoter_holding |-> prom, insider_pct |-> ins]) :
        gm \in {None, Some(0)},
        om \in {None, Some(H(10)), Some(H(25))},
        roe \in {None, Some(H(25))},
        roa \in {None, Some(H(3)), Some(H(8))},
        de \in {Some(50)},
        ocf \in {None, Some(24)},
        debt \in {Some(0), Some(99), Some(100)},
        rg \in {None, Some(20), Some(H(8))},
        eg \in {None, Some(12), Some(13)},
        prom \in {None, Some(0)},
        ins \in {None, Some(H(5)), Some(H(60))}}

\* banking / NBFC rubric
BankingFunds ==
    {With(EmptyFund,
          [roe |-> roe, roa |-> roa, gnpa |-> npa[1], nnpa |-> npa[2], pb |-> pb,
           rev_cagr_3y |-> rev, pat_cagr_3y |-> pat, promoter_holding |-> hold[1],
           insider_pct |-> hold[2], dividend_yield |-> dy, pe |-> pe]) :
        roe \in {None, Some(H(12)), Some(H(18))},
        roa \in {None, Some(H(1)), Some(H(2))},
        npa \in {<<None, None>>, <<Some(H(2)), Some(150)>>, <<Some(H(3)), Some(H(1))>>},
        pb \in {None, Some(H(2)), Some(H(3))},
        rev \in {None, Some(H(10)), Some(H(15))},
        pat \in {None, Some(H(12)), Some(H(15))},
        hold \in {<<None, None>>, <<Some(H(10)), None>>, <<Some(H(20)), None>>,
                  <<Some(H(50)), None>>, <<Some(0), Some(H(30))>>},
        dy \in {None, Some(50), Some(H(1))},
        pe \in {None, Some(H(12)), Some(H(20))}}

\* the NBFC runs differ from the banking ones in the promoter threshold only
NbfcFunds ==
    {f \in BankingFunds :
        f["roa"] = None /\ f["dividend_yield"] = None /\ f["pe"] = None}

InitGates ==
    /\ Resolved
    /\ NoTasks
    /\ NoPaper
    /\ pc = "start"
    /\ \/ /\ sector_type = "general"
          /\ fund \in GeneralFunds \cup GeneralFallbackFunds
          /\ data = FlatData(Indicators(0))
       \/ /\ sector_type = "banking"
          /\ fund \in BankingFunds
          /\ data = FlatData(Indicators(0))
       \/ /\ sector_type = "nbfc"
          /\ fund \in NbfcFunds
          /\ data = FlatData(Indicators(0))
       \/ /\ sector_type = "general"
          /\ fund = EmptyFund
          /\ data \in ValidChecklistData
    /\ technical = None
    /\ fund_result = None
    /\ val_result = None
    /\ red_flags = None
    /\ tech_result = None
    /\ verdict = None

SpecGates == InitGates /\ [][Next]_vars

----------------------------------------------------------------------------
(* Gate 2 over its whole input space                                       *)

ValuationFunds ==
    {With(EmptyFund,
          [pe |-> pe, pb |-> pb, roe |-> roe, pat_cagr_3y |-> pat,
           earnings_growth_qoq |-> eg, dividend_yield |-> dy, ev_ebitda |-> ev]) :
        pe \in {None, Some(-H(5)), Some(0), Some(H(8)), Some(H(12)), Some(H(20)),
                Some(H(30)), Some(H(50))},
        pb \in {None, Some(H(1)), Some(H(2)), Some(H(4)), Some(H(7)), Some(H(9))},
        roe \in {None, Some(H(10)), Some(H(13)), Some(H(18)), Some(H(25))},
        pat \in {None, Some(0), Some(-H(5)), Some(H(24))},
        eg \in {None, Some(5), Some(10)},
        dy \in {None, Some(H(3)), Some(H(4))},
        ev \in {None, Some(H(5)), Some(H(25))}}

InitValuation ==
    /\ Resolved
    /\ NoTasks
    /\ NoPaper
    /\ pc = "start"
    /\ sector_type \in SectorTypes
    /\ fund \in ValuationFunds
    /\ data = FlatData(Indicators(0))
    /\ technical = None
    /\ fund_result = None
    /\ val_result = None
    /\ red_flags = None
    /\ tech_result = None
    /\ verdict = None

SpecValuation == InitValuation /\ [][Next]_vars

----------------------------------------------------------------------------
(* Provider answers                                                        *)

\* the mapping `base` with the keys of `upd` overriding
Over(base, upd) == [k \in DOMAIN base |-> IF k \in DOMAIN upd THEN upd[k] ELSE base[k]]

\* ticker.info without any key ({} as well when reading it raised)
EmptyInfo ==
    [trailingPE |-> None, forwardPE |-> None, priceToBook |-> None,
     returnOnEquity |-> None, returnOnAssets |-> None, debtToEquity |-> None,
     grossMargins |-> None, operatingMargins |-> None, dividendYield |-> None,
     marketCap |-> None, sector |-> None, industry |-> None, totalDebt |-> None,
     operatingCashflow |-> None, freeCashflow |-> None, earningsGrowth |-> None,
     revenueGrowth |-> None, bookValue |-> None, trailingEps |-> None,
     heldPercentInsiders |-> None, enterpriseToEbitda |-> None]

\* a company page on which no labelled cell was found
EmptyPage ==
    [market_cap_cr |-> None, pe |-> None, book_value |-> None,
     current_price |-> None, dividend_yield |-> None, roce |-> None, roe |-> None,
     rev_cagr_3y |-> None, pat_cagr_3y |-> None, opm |-> None, eps |-> None,
     gnpa |-> None, nnpa |-> None, financing_margin |-> None,
     promoter_holding |-> None, fii_holding |-> None, dii_holding |-> None,
     ocf_cr |-> None, borrowings |-> None, equity_capital |-> None,
     reserves |-> None, roce_annual |-> None]

Marks == {"", ".NS", ".BO", ".L", "^"}

\* answers of ticker.history(period="1y")
HistoryRaises == [kind |-> "raises"]
HistoryNone == [kind |-> "none"]
Frame(sessions, d) == [kind |-> "frame", sessions |-> sessions, data |-> d]

\* answers of requests.get
RequestRaises == [kind |-> "raises"]
Http(status, page) == [kind |-> "http", status |-> status, page |-> page]

\* a year of sessions with every indicator favourable
YearData == FlatData(Indicators(5))

Listed == [mk \in Marks |-> Frame(250, YearData)]

\* sector and industry names by the sector type they are detected as
SectorInfo ==
    {[sector |-> Some("Technology"), industry |-> Some("Software")],
     [sector |-> Some("Financial Services"), industry |-> Some("Banks - Regional")],
     [sector |-> Some("Financial Services"), industry |-> Some("Credit Services")],
     [sector |-> Some("Financial Services"), industry |-> Some("Consumer Credit")]}

\* red-flag inputs: each reading absent and on either side of its threshold
FlagInfos ==
    {Over(EmptyInfo,
          [sector |-> si.sector, industry |-> si.industry,
           operatingCashflow |-> ocf, debtToEquity |-> de, returnOnEquity |-> roe,
           heldPercentInsiders |-> ins]) :
        si \in SectorInfo, ocf \in {None, Some(-1), Some(1)},
        de \in {None, Some(H(3)), Some(H(450))},
        roe \in {None, Some(-10), Some(15)},
        ins \in {None, Some(0), Some(15)}}

FlagPages ==
    {Over(EmptyPage, [promoter_holding |-> prom, fii_holding |-> inst[1],
                      dii_holding |-> inst[2]]) :
        prom \in {None, Some(0), Some(H(5)), Some(H(40))},
        inst \in {<<None, None>>, <<Some(H(35)), Some(H(35))>>,
                  <<Some(H(60)), Some(999)>>}}

FlagProviders ==
    {[history |-> Listed, info |-> info, cagr |-> <<None, None>>,
      has_scraping |-> TRUE, response |-> response] :
        info \in FlagInfos,
        response \in {Http(404, EmptyPage)} \cup {Http(200, page) : page \in FlagPages}}

InitFlags ==
    /\ symbol = Sym("INFY", ".NS")
    /\ provider \in FlagProviders

\* the price series each attempt would return when it has enough sessions
DataOf(mark) ==
    FlatData(Indicators(IF mark = ".NS" THEN 4 ELSE IF mark = ".BO" THEN 3 ELSE 5))

\* answers of one attempt: raising, nothing, empty, short, just enough, a year
HistoryAnswers(mark) ==
    {HistoryRaises, HistoryNone, Frame(0, DataOf(mark)), Frame(49, DataOf(mark)),
     Frame(50, DataOf(mark)), Frame(250, DataOf(mark))}

\* a bare symbol with every combination of answers to its three attempts, and
\* a marked symbol with every answer to its one attempt
ResolveCases ==
    {[symbol |-> Sym("INFY", ""),
      history |-> [mk \in Marks |-> IF mk = "" THEN bare ELSE IF mk = ".NS" THEN ns
                                    ELSE IF mk = ".BO" THEN bo ELSE HistoryNone]] :
        bare \in HistoryAnswers(""), ns \in HistoryAnswers(".NS"),
        bo \in HistoryAnswers(".BO")}
    \cup {[symbol |-> Sym("INFY", mark),
           history |-> [mk \in Marks |-> IF mk = mark THEN h ELSE Frame(250, DataOf(mk))]] :
              mark \in Marks \ {""}, h \in HistoryAnswers("")}

InitResolve ==
    \E c \in ResolveCases :
        /\ symbol = c.symbol
        /\ provider = [history |-> c.history, info |-> EmptyInfo,
                       cagr |-> <<None, None>>, has_scraping |-> TRUE,
                       response |-> Http(404, EmptyPage)]

\* ticker.info with every key the aggregator reads
FullInfo ==
    [trailingPE |-> Some(H(25)), forwardPE |-> Some(H(22)), priceToBook |-> Some(H(3)),
     returnOnEquity |-> Some(15), returnOnAssets |-> Some(8),
     debtToEquity |-> Some(H(45)), grossMargins |-> Some(40),
     operatingMargins |-> Some(20), dividendYield |-> Some(1),
     marketCap |-> Some(5 * Crore), sector |-> Some("Technology"),
     industry |-> Some("Software"), totalDebt |-> Some(1000),
     operatingCashflow |-> Some(300), freeCashflow |-> Some(200),
     earningsGrowth |-> Some(10), revenueGrowth |-> Some(12),
     bookValue |-> Some(H(80)), trailingEps |-> Some(1250),
     heldPercentInsiders |-> Some(40), enterpriseToEbitda |-> Some(H(12))]

\* company pages: each cell missing, zero where the page can show a zero, or set
MergePages ==
    {Over(EmptyPage,
          [eps |-> eps, pe |-> pe, roe |-> roe, roce |-> roce[1],
           roce_annual |-> roce[2], ocf_cr |-> ocf, promoter_holding |-> prom,
           book_value |-> price[1], current_price |-> price[2],
           market_cap_cr |-> price[3]]) :
        eps \in {None, Some(0), Some(1250)},
        pe \in {None, Some(0), Some(H(20))},
        roe \in {None, Some(H(18))},
        roce \in {<<None, None>>, <<Some(H(20)), None>>, <<None, Some(H(18))>>,
                  <<Some(H(20)), Some(H(18))>>},
        ocf \in {None, Some(-5), Some(0)},
        prom \in {None, Some(H(55))},
        price \in {<<None, None, None>>, <<Some(H(100)), Some(H(250)), Some(7)>>}}

\* a page with every cell set
FullPage ==
    [market_cap_cr |-> Some(7), pe |-> Some(H(20)), book_value |-> Some(H(100)),
     current_price |-> Some(H(250)), dividend_yield |-> Some(H(2)),
     roce |-> Some(H(20)), roe |-> Some(H(18)), rev_cagr_3y |-> Some(H(14)),
     pat_cagr_3y |-> Some(H(16)), opm |-> Some(H(22)), eps |-> Some(1250),
     gnpa |-> Some(H(2)), nnpa |-> Some(50), financing_margin |-> Some(H(4)),
     promoter_holding |-> Some(H(55)), fii_holding |-> Some(H(20)),
     dii_holding |-> Some(H(10)), ocf_cr |-> Some(8), borrowings |-> Some(50),
     equity_capital |-> Some(10), reserves |-> Some(90), roce_annual |-> Some(H(18))]

\* the secondary provider answering with a page, and each way it can fail
MergeCases ==
    {[symbol |-> Sym("INFY", ".NS"), has_scraping |-> TRUE,
      response |-> Http(200, page)] : page \in MergePages \cup {FullPage}}
    \cup {[symbol |-> Sym("INFY", mark), has_scraping |-> TRUE,
           response |-> Http(200, FullPage)] : mark \in Marks}
    \cup {[symbol |-> Sym("INFY", ".NS"), has_scraping |-> scraping,
           response |-> response] :
              scraping \in BOOLEAN,
              response \in {RequestRaises, Http(404, FullPage), Http(500, FullPage),
                            Http(200, FullPage)}}

InitMerge ==
    \E c \in MergeCases :
        /\ symbol = c.symbol
        /\ provider \in {[history |-> Listed, info |-> info,
                           cagr |-> IF info = EmptyInfo THEN <<None, None>>
                                    ELSE <<Some(H(12)), Some(H(15))>>,
                           has_scraping |-> c.has_scraping,
                           response |-> c.response] : info \in {EmptyInfo, FullInfo}}

\* day-over-day changes of the close
SeriesMoves == {-H(2), 0, H(3)}

\* series whose latest window moves on its first three sessions only: rising,
\* falling, mixed, without a loss and flat
SeriesData ==
    {[high_52w |-> Px(100), low_52w |-> Px(100), high_20 |-> Px(100),
      low_20 |-> Px(100), close |-> Px(100),
      ind |-> [Indicators(5) EXCEPT
                   !.delta = <<a, b, c>> \o [i \in 1..(RsiPeriod - 3) |-> 0]]] :
        a \in SeriesMoves, b \in SeriesMoves, c \in SeriesMoves}

InitSeries ==
    /\ symbol = Sym("INFY", ".NS")
    /\ provider \in {[history |-> [mk \in Marks |-> Frame(sessions, d)],
                       info |-> EmptyInfo, cagr |-> <<None, None>>,
                       has_scraping |-> TRUE, response |-> Http(404, EmptyPage)] :
                         d \in SeriesData, sessions \in {50, 250}}

InitSymbol ==
    /\ NoTasks
    /\ NoPaper
    /\ pc = "request"
    /\ attempts = <<>>
    /\ \/ InitFlags
       \/ InitResolve
       \/ InitMerge
       \/ InitSeries
    /\ fund = None
    /\ sector_type = None
    /\ data = None
    /\ technical = None
    /\ fund_result = None
    /\ val_result = None
    /\ red_flags = None
    /\ tech_result = None
    /\ verdict = None

NextSymbol == AnalyzeSymbol

SpecSymbol == InitSymbol /\ [][NextSymbol]_vars

----------------------------------------------------------------------------
(* The candlestick scan over candle shapes                                 *)

Candle(o, h, l, c) == [Open |-> o, High |-> h, Low |-> l, Close |-> c]

\* one candle of every shape the scan tells apart, and two that engulf
CandleShapes ==
    {Candle(Px(100), Px(100), Px(100), Px(100)),    \* no range
     Candle(Px(100), Px(108), Px(96), Px(104)),     \* plain green
     Candle(Px(100), Px(102), Px(98), Px(100)),     \* doji
     Candle(Px(100), Px(102), Px(94), Px(102)),     \* green hammer
     Candle(Px(102), Px(102), Px(94), Px(100)),     \* red hammer
     Candle(Px(100), Px(110), Px(100), Px(110)),    \* green marubozu
     Candle(Px(110), Px(110), Px(100), Px(100)),    \* red marubozu
     Candle(Px(98), Px(116), Px(96), Px(112)),      \* wide green
     Candle(Px(112), Px(116), Px(96), Px(98))}      \* wide red

\* the close twenty rows back: none (a short frame), below, equal, above
Closes20(close) == {None, Some(Px(90)), Some(close), Some(Px(120))}

RecentCandles == {<<a, b, c>> : a \in CandleShapes, b \in CandleShapes, c \in CandleShapes}

SeqHigh(recent) == CHOOSE h \in {recent[i].High : i \in DOMAIN recent} :
                       \A i \in DOMAIN recent : recent[i].High <= h
SeqLow(recent) == CHOOSE l \in {recent[i].Low : i \in DOMAIN recent} :
                      \A i \in DOMAIN recent : recent[i].Low >= l

\* the frame of a scan: its last three candles and the indicator readings
CandleData ==
    UNION {{[high_52w |-> SeqHigh(recent), low_52w |-> SeqLow(recent),
             high_20 |-> SeqHigh(recent), low_20 |-> SeqLow(recent),
             close |-> recent[3].Close,
             ind |-> Over(Indicators(k), detect_candlestick_pattern(recent, close_20))] :
                close_20 \in Closes20(recent[3].Close), k \in {0, 5}} :
           recent \in RecentCandles}

InitCandles ==
    /\ Resolved
    /\ NoTasks
    /\ NoPaper
    /\ pc = "start"
    /\ sector_type = "general"
    /\ fund = EmptyFund
    /\ data \in CandleData
    /\ technical = None
    /\ fund_result = None
    /\ val_result = None
    /\ red_flags = None
    /\ tech_result = None
    /\ verdict = None

SpecCandles == InitCandles /\ [][Next]_vars

----------------------------------------------------------------------------
(* Pivot levels over closely spaced quotes                                 *)

\* quotes 0.004, 0.04 and 8 above the lowest one
PivotPrices == {Px(100), Px(100) + 4, Px(100) + 40, Px(108)}

\* frames with Low <= Close <= High in every session
PivotData ==
    {[high_52w |-> h20, low_52w |-> l20, high_20 |-> h20, low_20 |-> l20,
      close |-> c, ind |-> Indicators(k)] :
        h20 \in PivotPrices, l20 \in PivotPrices, c \in PivotPrices, k \in 0..5}

ValidPivotData == {d \in PivotData : d.low_20 <= d.close /\ d.close <= d.high_20}

\* fundamentals with a cheap valuation, so that trade setups are attached
PivotFunds == {f \in AnalysisFunds : f["pe"] = Some(H(12)) /\ f["pb"] = Some(H(1))}

InitPivots ==
    /\ Resolved
    /\ NoTasks
    /\ NoPaper
    /\ pc = "start"
    /\ sector_type = "general"
    /\ fund \in PivotFunds
    /\ data \in ValidPivotData
    /\ technical = None
    /\ fund_result = None
    /\ val_result = None
    /\ red_flags = None
    /\ tech_result = None
    /\ verdict = None

SpecPivots == InitPivots /\ [][Next]_vars

----------------------------------------------------------------------------
(* The market the batch runs look at                                       *)

\* a listed company whose primary provider reports the given figures and
\* whose company page is not found
Quoted(figures) ==
    [history |-> Listed, info |-> Over(EmptyInfo, figures), cagr |-> <<None, None>>,
     has_scraping |-> TRUE, response |-> Http(404, EmptyPage)]

\* what the providers answer for each symbol: companies that differ in the
\* valuation lenses their figures feed, one without any price history and one
\* whose latest session has no volume
Market(sym) ==
    CASE sym.base = "NOLENS"      -> Quoted([sector |-> Some("Technology")])
      [] sym.base = "CHEAP"       -> Quoted([enterpriseToEbitda |-> Some(H(5))])
      [] sym.base = "FAIR"        -> Quoted([enterpriseToEbitda |-> Some(H(15))])
      [] sym.base = "DEAR"        -> Quoted([enterpriseToEbitda |-> Some(H(25))])
      [] sym.base = "INCOME"      -> Quoted([dividendYield |-> Some(4)])
      [] sym.base = "CHEAPINCOME" -> Quoted([enterpriseToEbitda |-> Some(H(5)),
                                             dividendYield |-> Some(4)])
      [] sym.base = "DEARINCOME"  -> Quoted([enterpriseToEbitda |-> Some(H(25)),
                                             dividendYield |-> Some(4)])
      [] sym.base = "BARGAIN"     -> Quoted([enterpriseToEbitda |-> Some(H(5)),
                                             dividendYield |-> Some(4),
                                             trailingPE |-> Some(H(12))])
      [] sym.base = "BUBBLE"      -> Quoted([enterpriseToEbitda |-> Some(H(25)),
                                             trailingPE |-> Some(H(50))])
      [] sym.base = "BANK"        -> Quoted([sector |-> Some("Financial Services"),
                                             industry |-> Some("Banks - Regional"),
                                             trailingPE |-> Some(H(12)),
                                             priceToBook |-> Some(H(1)),
                                             returnOnEquity |-> Some(15)])
      [] sym.base = "DELISTED"    -> [Quoted([sector |-> Some("Technology")])
                                         EXCEPT !.history = [mk \in Marks |-> HistoryNone]]
      [] sym.base = "HALTED"      -> [Quoted([enterpriseToEbitda |-> Some(H(15))])
                                         EXCEPT !.history =
                                             [mk \in Marks |->
                                                 Frame(250, [YearData EXCEPT
                                                     !.ind.volume_nan = TRUE])]]

Companies == {"NOLENS", "CHEAP", "FAIR", "DEAR", "INCOME", "CHEAPINCOME",
              "DEARINCOME", "BARGAIN", "BUBBLE", "BANK", "DELISTED", "HALTED"}

\* what analyze_stock returns for each company of this market
MarketAnalyses ==
    {<<c, analyze_stock(Sym(c, ""), Market(Sym(c, "")))>> : c \in Companies}

\* analyze_stock(sym) in this market
market_analysis(sym) ==
    IF sym.mark = "" /\ sym.base \in Companies
    THEN (CHOOSE p \in MarketAnalyses : p[1] = sym.base)[2]
    ELSE analyze_stock(sym, Market(sym))

----------------------------------------------------------------------------
(* BATCH ANALYSIS: ZerodhaAnalyzer.run_analysis                            *)

\* the summary row run_analysis keeps of an analysis
summary_row(analysis) ==
    [symbol     |-> analysis.symbol,
     price      |-> analysis.moving_averages.current_price,
     fund_score |-> <<analysis.fund_result.score, analysis.fund_result.assessed>>,
     valuation  |-> analysis.val_result.verdict,
     tech_score |-> analysis.checklist_result.score,
     verdict    |-> analysis.verdict.verdict,
     confidence |-> analysis.verdict.confidence]

\* the loop of run_analysis from stocks[i] on: each symbol is analyzed and a
\* returned analysis adds a row; an exception of analyze_stock leaves the loop
\* and run_analysis
RECURSIVE run_analysis_from(_, _, _, _)
run_analysis_from(stocks, i, summary, called) ==
    IF i > Len(stocks) THEN [kind |-> "report", summary |-> summary, called |-> called]
    ELSE LET analysis == market_analysis(stocks[i])
         IN  IF analysis.kind = "raise"
             THEN [kind |-> "raise", exception |-> analysis.exception,
                   called |-> Append(called, stocks[i])]
             ELSE run_analysis_from(stocks, i + 1,
                      IF analysis.kind = "analysis"
                      THEN Append(summary, summary_row(analysis.analysis))
                      ELSE summary,
                      Append(called, stocks[i]))

\* run_analysis(stocks): the report of the analyses, or the exception
run_analysis(stocks) == run_analysis_from(stocks, 1, <<>>, <<>>)

\* the variables of the single analysis, idle while a batch or the server runs
analysisvars == <<symbol, provider, attempts, pc, fund, sector_type, data, technical,
                  fund_result, val_result, red_flags, tech_result, verdict>>

\* main(): the stocks typed at the prompt go to run_analysis; without any
\* stock it exits at once
Main(th) ==
    /\ threads[th].pc = "main"
    /\ IF threads[th].stocks = <<>>
       THEN /\ threads' = [threads EXCEPT ![th].pc = "exited"]
            /\ UNCHANGED analyzing
       ELSE LET r == run_analysis(threads[th].stocks)
            IN  /\ analyzing' = analyzing \o r.called
                /\ threads' = [threads EXCEPT
                       ![th].pc = IF r.kind = "raise" THEN "raised" ELSE "exited",
                       ![th].report = IF r.kind = "raise" THEN None
                                      ELSE Some(r.summary)]
    /\ UNCHANGED <<tasks, tasks_lock, clock>>
    /\ UNCHANGED analysisvars
    /\ UNCHANGED papervars

----------------------------------------------------------------------------
(* BACKGROUND TASK SYSTEM (app.py)                                         *)

MaxWorkers == 3     \* ThreadPoolExecutor(max_workers=3)
TaskTtl == 1        \* cleanup_old_tasks: 3600 seconds, in hours

\* the mapping f with key k set to v
Put(f, k, v) == [x \in DOMAIN f \cup {k} |-> IF x = k THEN v ELSE f[x]]

\* str(uuid.uuid4())[:8]: a fresh id per request
TaskIdFor == [r1 |-> "t1", r2 |-> "t2", r3 |-> "t3"]

\* the threads the executor is running a worker on
Running == {th \in DOMAIN threads :
               /\ threads[th].kind \in {"single", "batch"}
               /\ threads[th].pc \notin {"queued", "exited", "crashed"}}

\* Lock.acquire() succeeds on an unheld lock only
lock_free_always(lock) == TRUE

lock_free(lock) == lock = None

\* the `with tasks_lock:` statements by the position that reaches them, with
\* the position inside the block
WithLock ==
    [cleanup  |-> "cleanup_locked",  create  |-> "create_locked",
     progress |-> "progress_locked", publish |-> "publish_locked",
     finish   |-> "finish_locked",   record  |-> "record_locked",
     failed   |-> "failed_locked",   lookup  |-> "lookup_locked"]

\* a thread enters a `with tasks_lock:` block
Acquire(th) ==
    /\ threads[th].pc \in DOMAIN WithLock
    /\ lock_free(tasks_lock)
    /\ tasks_lock' = Some(th)
    /\ threads' = [threads EXCEPT ![th].pc = WithLock[threads[th].pc]]
    /\ UNCHANGED <<tasks, clock, analyzing>>
    /\ UNCHANGED analysisvars
    /\ UNCHANGED papervars

\* start_batch_analysis up to cleanup_old_tasks taking its cutoff: a request
\* without symbols reads the watchlist and is refused when that is empty too
StartBatch(th) ==
    /\ threads[th].kind = "start_batch"
    /\ threads[th].pc = "received"
    /\ \E watchlist \in {<<>>, <<Sym("FAIR", "")>>} :
          LET symbols == IF threads[th].symbols = <<>> THEN watchlist
                         ELSE threads[th].symbols
          IN  threads' = [threads EXCEPT
                  ![th].symbols = symbols,
                  ![th].pc = IF symbols = <<>> THEN "refused" ELSE "cleanup",
                  ![th].cutoff = clock - TaskTtl]
    /\ UNCHANGED <<tasks, tasks_lock, clock, analyzing>>
    /\ UNCHANGED analysisvars
    /\ UNCHANGED papervars

\* cleanup_old_tasks inside its lock: the tasks started before the cutoff go
cleanup_old_tasks(registry, cutoff) ==
    LET expired == {tid \in DOMAIN registry : registry[tid].started < cutoff}
    IN  [tid \in DOMAIN registry \ expired |-> registry[tid]]

Cleanup(th) ==
    /\ threads[th].pc = "cleanup_locked"
    /\ tasks' = cleanup_old_tasks(tasks, threads[th].cutoff)
    /\ tasks_lock' = None
    /\ threads' = [threads EXCEPT ![th].pc = "create",
                                  ![th].task_id = Some(TaskIdFor[th])]
    /\ UNCHANGED <<clock, analyzing>>
    /\ UNCHANGED analysisvars
    /\ UNCHANGED papervars

\* a list in the registry: its items, and whether it is the very list a
\* worker holds as `results` (an assignment without .copy())
ListCopy(items) == [items |-> items, shared |-> FALSE]
ListItself(items) == [items |-> items, shared |-> TRUE]

\* start_batch_analysis registering its task and handing it to the executor
CreateBatch(th) ==
    /\ threads[th].kind = "start_batch"
    /\ threads[th].pc = "create_locked"
    /\ LET task_id == Val(threads[th].task_id)
           symbols == threads[th].symbols
       IN  /\ tasks' = Put(tasks, task_id,
                           [type |-> "batch", status |-> "running",
                            total |-> Len(symbols), completed |-> 0,
                            current |-> symbols[1], results |-> ListCopy(<<>>),
                            started |-> clock])
           /\ threads' = Put([threads EXCEPT ![th].pc = "responded"], task_id,
                             [kind |-> "batch", pc |-> "queued", task_id |-> task_id,
                              symbols |-> symbols, i |-> 1, results |-> <<>>])
    /\ tasks_lock' = None
    /\ UNCHANGED <<clock, analyzing>>
    /\ UNCHANGED analysisvars
    /\ UNCHANGED papervars

\* the executor starts a queued worker when one of its threads is idle
\* (run_batch_analysis: analyzer = ZerodhaAnalyzer(); results = [])
StartWorker(th) ==
    /\ threads[th].pc = "queued"
    /\ Cardinality(Running) < MaxWorkers
    /\ threads' = [threads EXCEPT ![th].pc =
                      IF threads[th].kind = "single" THEN "analyze"
                      ELSE IF threads[th].symbols = <<>> THEN "finish" ELSE "progress"]
    /\ UNCHANGED <<tasks, tasks_lock, clock, analyzing>>
    /\ UNCHANGED analysisvars
    /\ UNCHANGED papervars

\* the position after the loop body of run_batch_analysis for symbols[i]
next_symbol(frame) ==
    [frame EXCEPT !.i = frame.i + 1,
                  !.pc = IF frame.i + 1 > Len(frame.symbols) THEN "finish"
                         ELSE "progress"]

\* run_batch_analysis reporting its progress; a task that is gone raises
\* KeyError outside the try block and ends the worker
BatchProgress(th) ==
    /\ threads[th].pc = "progress_locked"
    /\ LET frame == threads[th]
       IN  IF frame.task_id \in DOMAIN tasks
           THEN /\ tasks' = [tasks EXCEPT
                       ![frame.task_id].current = frame.symbols[frame.i],
                       ![frame.task_id].completed = frame.i - 1]
                /\ threads' = [threads EXCEPT ![th].pc = "analyze"]
           ELSE /\ threads' = [threads EXCEPT ![th].pc = "crashed"]
                /\ UNCHANGED tasks
    /\ tasks_lock' = None
    /\ UNCHANGED <<clock, analyzing>>
    /\ UNCHANGED analysisvars
    /\ UNCHANGED papervars

\* run_batch_analysis analyzing symbols[i]: an analysis is appended to the
\* private list, None is skipped and an exception is logged
BatchAnalyze(th) ==
    /\ threads[th].kind = "batch"
    /\ threads[th].pc = "analyze"
    /\ LET frame == threads[th]
           sym == frame.symbols[frame.i]
           result == market_analysis(sym)
           results == Append(frame.results, result.analysis)
       IN  /\ analyzing' = Append(analyzing, sym)
           /\ IF result.kind = "analysis"
              THEN /\ threads' = [threads EXCEPT ![th].results = results,
                                                 ![th].pc = "publish"]
                   \* a registry entry that is this very list grows with it
                   /\ tasks' = IF /\ frame.task_id \in DOMAIN tasks
                                  /\ tasks[frame.task_id].results.shared
                               THEN [tasks EXCEPT
                                        ![frame.task_id].results.items = results]
                               ELSE tasks
              ELSE /\ threads' = [threads EXCEPT ![th] = next_symbol(frame)]
                   /\ UNCHANGED tasks
    /\ UNCHANGED <<tasks_lock, clock>>
    /\ UNCHANGED analysisvars
    /\ UNCHANGED papervars

\* results.copy()
publish(results) == ListCopy(results)

\* run_batch_analysis publishing its results so far; a task that is gone
\* raises KeyError inside the try block, which is logged
BatchPublish(th) ==
    /\ threads[th].pc = "publish_locked"
    /\ LET frame == threads[th]
       IN  /\ tasks' = IF frame.task_id \in DOMAIN tasks
                       THEN [tasks EXCEPT
                                ![frame.task_id].results = publish(frame.results)]
                       ELSE tasks
           /\ threads' = [threads EXCEPT ![th] = next_symbol(frame)]
    /\ tasks_lock' = None
    /\ UNCHANGED <<clock, analyzing>>
    /\ UNCHANGED analysisvars
    /\ UNCHANGED papervars

\* run_batch_analysis after its loop: the final write hands over the list
BatchFinish(th) ==
    /\ threads[th].pc = "finish_locked"
    /\ LET frame == threads[th]
       IN  IF frame.task_id \in DOMAIN tasks
           THEN /\ tasks' = [tasks EXCEPT
                       ![frame.task_id].status = "complete",
                       ![frame.task_id].completed = Len(frame.symbols),
                       ![frame.task_id].results = ListItself(frame.results)]
                /\ threads' = [threads EXCEPT ![th].pc = "report"]
           ELSE /\ threads' = [threads EXCEPT ![th].pc = "crashed"]
                /\ UNCHANGED tasks
    /\ tasks_lock' = None
    /\ UNCHANGED <<clock, analyzing>>
    /\ UNCHANGED analysisvars
    /\ UNCHANGED papervars

\* run_batch_analysis saving the batch report: run_analysis over the symbols
\* of the results, any exception swallowed
BatchReport(th) ==
    /\ threads[th].pc = "report"
    /\ LET frame == threads[th]
           r == run_analysis([k \in 1..Len(frame.results) |-> frame.results[k].symbol])
       IN  analyzing' = analyzing \o r.called
    /\ threads' = [threads EXCEPT ![th].pc = "exited"]
    /\ UNCHANGED <<tasks, tasks_lock, clock>>
    /\ UNCHANGED analysisvars
    /\ UNCHANGED papervars

----------------------------------------------------------------------------
(* One batch: a batch request to the web application, or main()            *)

MaxBatch == 2       \* symbols in a batch

\* the symbol lists of at most n symbols
RECURSIVE ListsUpTo(_)
ListsUpTo(n) ==
    IF n = 0 THEN {<<>>}
    ELSE LET shorter == ListsUpTo(n - 1)
         IN  shorter \cup {Append(l, Sym(c, "")) : l \in shorter, c \in Companies}

Batches == ListsUpTo(MaxBatch)

\* a request thread of POST /api/analyze/batch
BatchRequest(symbols) ==
    [kind |-> "start_batch", pc |-> "received", symbols |-> symbols,
     cutoff |-> 0, task_id |-> None]

\* the interactive program at its prompt
Prompt(stocks) == [kind |-> "main", pc |-> "main", stocks |-> stocks, report |-> None]

\* no single analysis is in progress
NoAnalysis ==
    /\ Resolved
    /\ pc = "idle"
    /\ fund = None
    /\ sector_type = None
    /\ data = None
    /\ technical = None
    /\ fund_result = None
    /\ val_result = None
    /\ red_flags = None
    /\ tech_result = None
    /\ verdict = None

InitBatch ==
    /\ NoAnalysis
    /\ NoPaper
    /\ tasks = [t \in {} |-> None]
    /\ tasks_lock = None
    /\ clock = 0
    /\ analyzing = <<>>
    /\ \E symbols \in Batches :
          \/ threads = [th \in {"r1"} |-> BatchRequest(symbols)]
          \/ threads = [th \in {"main"} |-> Prompt(symbols)]

NextBatch ==
    \/ \E th \in DOMAIN threads : Main(th)
    \/ \E th \in DOMAIN threads : StartBatch(th)
    \/ \E th \in DOMAIN threads : Acquire(th)
    \/ \E th \in DOMAIN threads : Cleanup(th)
    \/ \E th \in DOMAIN threads : CreateBatch(th)
    \/ \E th \in DOMAIN threads : StartWorker(th)
    \/ \E th \in DOMAIN threads : BatchProgress(th)
    \/ \E th \in DOMAIN threads : BatchAnalyze(th)
    \/ \E th \in DOMAIN threads : BatchPublish(th)
    \/ \E th \in DOMAIN threads : BatchFinish(th)
    \/ \E th \in DOMAIN threads : BatchReport(th)

SpecBatch == InitBatch /\ [][NextBatch]_vars

----------------------------------------------------------------------------
(* Single analysis tasks, and the server under concurrent requests         *)

\* format_report: the report text, as the figures it is made of
format_report(analysis) ==
    [symbol      |-> analysis.symbol,
     sector_type |-> analysis.sector_type,
     gate1       |-> <<analysis.fund_result.score, analysis.fund_result.assessed>>,
     gate2       |-> analysis.val_result.verdict,
     gate3       |-> analysis.checklist_result.score,
     verdict     |-> analysis.verdict.verdict]

\* start_analysis up to cleanup_old_tasks taking its cutoff: a request without
\* a symbol is refused
StartSingle(th) ==
    /\ threads[th].kind = "start"
    /\ threads[th].pc = "received"
    /\ threads' = [threads EXCEPT
           ![th].pc = IF threads[th].symbol = None THEN "refused" ELSE "cleanup",
           ![th].cutoff = clock - TaskTtl]
    /\ UNCHANGED <<tasks, tasks_lock, clock, analyzing>>
    /\ UNCHANGED analysisvars
    /\ UNCHANGED papervars

\* start_analysis registering its task and handing it to the executor
CreateSingle(th) ==
    /\ threads[th].kind = "start"
    /\ threads[th].pc = "create_locked"
    /\ LET task_id == Val(threads[th].task_id)
           sym == Val(threads[th].symbol)
       IN  /\ tasks' = Put(tasks, task_id,
                           [type |-> "single", status |-> "running", symbol |-> sym,
                            result |-> None, started |-> clock])
           /\ threads' = Put([threads EXCEPT ![th].pc = "responded"], task_id,
                             [kind |-> "single", pc |-> "queued", task_id |-> task_id,
                              symbol |-> sym, result |-> None, error |-> None])
    /\ tasks_lock' = None
    /\ UNCHANGED <<clock, analyzing>>
    /\ UNCHANGED analysisvars
    /\ UNCHANGED papervars

\* run_single_analysis analyzing its symbol; an exception goes to the handler
SingleAnalyze(th) ==
    /\ threads[th].kind = "single"
    /\ threads[th].pc = "analyze"
    /\ LET sym == threads[th].symbol
           result == market_analysis(sym)
       IN  /\ analyzing' = Append(analyzing, sym)
           /\ threads' = [threads EXCEPT
                  ![th].pc = IF result.kind = "raise" THEN "failed" ELSE "record",
                  ![th].result = IF result.kind = "analysis" THEN Some(result.analysis)
                                 ELSE None,
                  ![th].error = IF result.kind = "raise" THEN Some(result.exception)
                                ELSE None]
    /\ UNCHANGED <<tasks, tasks_lock, clock>>
    /\ UNCHANGED analysisvars
    /\ UNCHANGED papervars

\* run_single_analysis inside its `with tasks_lock:` block, first statement:
\* the status goes first; a task that is gone raises KeyError inside the try
\* block, which leaves the block and goes to the handler
SingleRecord(th) ==
    /\ threads[th].pc = "record_locked"
    /\ LET frame == threads[th]
       IN  IF frame.task_id \notin DOMAIN tasks
           THEN /\ threads' = [threads EXCEPT ![th].pc = "failed",
                                              ![th].error = Some("KeyError")]
                /\ tasks_lock' = None
                /\ UNCHANGED tasks
           ELSE /\ tasks' = [tasks EXCEPT ![frame.task_id].status =
                                IF frame.result /= None THEN "complete" ELSE "error"]
                /\ threads' = [threads EXCEPT ![th].pc =
                                  IF frame.result /= None THEN "record_result"
                                  ELSE "record_error"]
                /\ UNCHANGED tasks_lock
    /\ UNCHANGED <<clock, analyzing>>
    /\ UNCHANGED analysisvars
    /\ UNCHANGED papervars

\* tasks[task_id]['result'] = result
SingleRecordResult(th) ==
    /\ threads[th].pc = "record_result"
    /\ tasks' = [tasks EXCEPT ![threads[th].task_id].result = threads[th].result]
    /\ threads' = [threads EXCEPT ![th].pc = "record_report"]
    /\ UNCHANGED <<tasks_lock, clock, analyzing>>
    /\ UNCHANGED analysisvars
    /\ UNCHANGED papervars

\* tasks[task_id]['report'] = analyzer.format_report(result), the last
\* statement of the block
SingleRecordReport(th) ==
    /\ threads[th].pc = "record_report"
    /\ LET frame == threads[th]
       IN  tasks' = [tasks EXCEPT ![frame.task_id] =
                        Put(tasks[frame.task_id], "report",
                            format_report(Val(frame.result)))]
    /\ threads' = [threads EXCEPT ![th].pc = "exited"]
    /\ tasks_lock' = None
    /\ UNCHANGED <<clock, analyzing>>
    /\ UNCHANGED analysisvars
    /\ UNCHANGED papervars

\* tasks[task_id]['error'] = f'Insufficient data for {symbol}', the last
\* statement of the block
SingleRecordError(th) ==
    /\ threads[th].pc = "record_error"
    /\ LET frame == threads[th]
       IN  tasks' = [tasks EXCEPT ![frame.task_id] =
                        Put(tasks[frame.task_id], "error", "Insufficient data")]
    /\ threads' = [threads EXCEPT ![th].pc = "exited"]
    /\ tasks_lock' = None
    /\ UNCHANGED <<clock, analyzing>>
    /\ UNCHANGED analysisvars
    /\ UNCHANGED papervars

\* the exception handler of run_single_analysis, first statement; a task that
\* is gone raises KeyError again, which ends the worker
SingleFailed(th) ==
    /\ threads[th].pc = "failed_locked"
    /\ LET frame == threads[th]
       IN  IF frame.task_id \notin DOMAIN tasks
           THEN /\ threads' = [threads EXCEPT ![th].pc = "crashed"]
                /\ tasks_lock' = None
                /\ UNCHANGED tasks
           ELSE /\ tasks' = [tasks EXCEPT ![frame.task_id].status = "error"]
                /\ threads' = [threads EXCEPT ![th].pc = "failed_error"]
                /\ UNCHANGED tasks_lock
    /\ UNCHANGED <<clock, analyzing>>
    /\ UNCHANGED analysisvars
    /\ UNCHANGED papervars

\* tasks[task_id]['error'] = str(e), the last statement of the handler
SingleFailedError(th) ==
    /\ threads[th].pc = "failed_error"
    /\ LET frame == threads[th]
       IN  tasks' = [tasks EXCEPT ![frame.task_id] =
                        Put(tasks[frame.task_id], "error", Val(frame.error))]
    /\ threads' = [threads EXCEPT ![th].pc = "exited"]
    /\ tasks_lock' = None
    /\ UNCHANGED <<clock, analyzing>>
    /\ UNCHANGED analysisvars
    /\ UNCHANGED papervars

MaxClock == 2       \* hours the server is followed for

\* an hour passes
Tick ==
    /\ clock < MaxClock
    /\ clock' = clock + 1
    /\ UNCHANGED <<tasks, tasks_lock, threads, analyzing>>
    /\ UNCHANGED analysisvars
    /\ UNCHANGED papervars

\* a request thread of POST /api/analyze
SingleRequest(sym) ==
    [kind |-> "start", pc |-> "received", symbol |-> sym, cutoff |-> 0,
     task_id |-> None]

\* the requests the server receives: a batch in which one symbol raises and
\* one lacks data, and a single analysis that succeeds, raises or lacks data
ServedBatches == {<<Sym("HALTED", ""), Sym("FAIR", "")>>,
                  <<Sym("DEAR", ""), Sym("DELISTED", "")>>}

ServedSymbols == {None, Some(Sym("CHEAP", "")), Some(Sym("HALTED", "")),
                  Some(Sym("DELISTED", ""))}

InitTasks ==
    /\ NoAnalysis
    /\ NoPaper
    /\ tasks = [t \in {} |-> None]
    /\ tasks_lock = None
    /\ clock = 0
    /\ analyzing = <<>>
    /\ \E symbols \in ServedBatches, sym \in ServedSymbols, other \in ServedBatches :
          \/ threads = [th \in {"r1", "r2"} |->
                           IF th = "r1" THEN BatchRequest(symbols)
                           ELSE SingleRequest(sym)]
          \/ threads = [th \in {"r1", "r2"} |->
                           IF th = "r1" THEN BatchRequest(symbols)
                           ELSE BatchRequest(other)]

NextTasks ==
    \/ \E th \in DOMAIN threads : StartBatch(th)
    \/ \E th \in DOMAIN threads : StartSingle(th)
    \/ \E th \in DOMAIN threads : Acquire(th)
    \/ \E th \in DOMAIN threads : Cleanup(th)
    \/ \E th \in DOMAIN threads : CreateBatch(th)
    \/ \E th \in DOMAIN threads : CreateSingle(th)
    \/ \E th \in DOMAIN threads : StartWorker(th)
    \/ \E th \in DOMAIN threads : BatchProgress(th)
    \/ \E th \in DOMAIN threads : BatchAnalyze(th)
    \/ \E th \in DOMAIN threads : BatchPublish(th)
    \/ \E th \in DOMAIN threads : BatchFinish(th)
    \/ \E th \in DOMAIN threads : BatchReport(th)
    \/ \E th \in DOMAIN threads : SingleAnalyze(th)
    \/ \E th \in DOMAIN threads : SingleRecord(th)
    \/ \E th \in DOMAIN threads : SingleRecordResult(th)
    \/ \E th \in DOMAIN threads : SingleRecordReport(th)
    \/ \E th \in DOMAIN threads : SingleRecordError(th)
    \/ \E th \in DOMAIN threads : SingleFailed(th)
    \/ \E th \in DOMAIN threads : SingleFailedError(th)
    \/ Tick

SpecTasks == InitTasks /\ [][NextTasks]_vars


\* a step of thread th of the server: a request handler or a worker
ThreadStep(th) ==
    /\ th \in DOMAIN threads
    /\ \/ StartBatch(th) \/ StartSingle(th) \/ Acquire(th) \/ Cleanup(th)
       \/ CreateBatch(th) \/ CreateSingle(th) \/ StartWorker(th)
       \/ BatchProgress(th) \/ BatchAnalyze(th) \/ BatchPublish(th)
       \/ BatchFinish(th) \/ BatchReport(th)
       \/ SingleAnalyze(th) \/ SingleRecord(th) \/ SingleRecordResult(th)
       \/ SingleRecordReport(th) \/ SingleRecordError(th)
       \/ SingleFailed(th) \/ SingleFailedError(th)

ServerThreads == DOMAIN TaskIdFor \cup {TaskIdFor[r] : r \in DOMAIN TaskIdFor}

\* the server with every request thread and every worker thread of the
\* executor scheduled again and again; the clock is under no obligation
SpecTasksFair == SpecTasks /\ \A th \in ServerThreads : WF_vars(ThreadStep(th))

----------------------------------------------------------------------------
(* Polling a single analysis task: get_analysis                            *)

MaxPolls == 2       \* polls of the task by its client

\* a client polling GET /api/analyze/<task_id> with the id the request `of`
\* was answered with
PollRequest(of) ==
    [kind |-> "poll", pc |-> "waiting", of |-> of, task_id |-> None,
     response |-> None, observed |-> <<>>]

\* the client has the task id once start_analysis responded
PollStart(th) ==
    /\ threads[th].kind = "poll"
    /\ threads[th].pc = "waiting"
    /\ threads[threads[th].of].pc = "responded"
    /\ threads' = [threads EXCEPT ![th].pc = "lookup",
                                  ![th].task_id = threads[threads[th].of].task_id]
    /\ UNCHANGED <<tasks, tasks_lock, clock, analyzing>>
    /\ UNCHANGED analysisvars
    /\ UNCHANGED papervars

\* with tasks_lock: task = tasks.get(task_id); the lock is released with the
\* task dict in hand; an unknown id is answered 404
PollLookup(th) ==
    /\ threads[th].pc = "lookup_locked"
    /\ threads' = [threads EXCEPT ![th].pc =
                      IF Val(threads[th].task_id) \in DOMAIN tasks THEN "respond"
                      ELSE "not_found"]
    /\ tasks_lock' = None
    /\ UNCHANGED <<tasks, clock, analyzing>>
    /\ UNCHANGED analysisvars
    /\ UNCHANGED papervars

\* _serialize_analysis: None stays None, an analysis keeps its keys
serialize_analysis(result) == IF result = None THEN None ELSE Some(Val(result))

\* the statements of get_analysis after the lock, one read of the task dict
\* each: the response is built from task['status'], then task['status'] and
\* task.get('result') are tested, then the result and the report, or the
\* error, are read
get_analysis_step(frame, task) ==
    CASE frame.pc = "respond" ->
             [frame EXCEPT !.pc = "test_complete",
                           !.response = Some([status |-> task.status, result |-> None,
                                              report |-> None, error |-> None])]
      [] frame.pc = "test_complete" ->
             [frame EXCEPT !.pc = IF task.status = "complete" THEN "test_result"
                                  ELSE "test_error"]
      [] frame.pc = "test_result" ->
             [frame EXCEPT !.pc = IF task.result /= None THEN "read_result"
                                  ELSE "test_error"]
      [] frame.pc = "read_result" ->
             [frame EXCEPT !.pc = "read_report",
                           !.response[1].result = serialize_analysis(task.result)]
      [] frame.pc = "read_report" ->
             \* task.get('report', '')
             [frame EXCEPT !.pc = "responded",
                           !.response[1].report =
                               IF "report" \in DOMAIN task THEN Some(task.report)
                               ELSE None]
      [] frame.pc = "test_error" ->
             [frame EXCEPT !.pc = IF task.status = "error" THEN "read_error"
                                  ELSE "responded"]
      [] frame.pc = "read_error" ->
             \* task.get('error', 'Unknown error')
             [frame EXCEPT !.pc = "responded",
                           !.response[1].error =
                               IF "error" \in DOMAIN task THEN Some(task.error)
                               ELSE Some("Unknown error")]

PollPositions == {"respond", "test_complete", "test_result", "read_result",
                  "read_report", "test_error", "read_error"}

\* get_analysis reading the task dict, without the lock
PollRead(th) ==
    /\ threads[th].kind = "poll"
    /\ threads[th].pc \in PollPositions
    /\ threads' = [threads EXCEPT ![th] =
                      get_analysis_step(threads[th], tasks[Val(threads[th].task_id)])]
    /\ UNCHANGED <<tasks, tasks_lock, clock, analyzing>>
    /\ UNCHANGED analysisvars
    /\ UNCHANGED papervars

\* the client keeps the response and polls again
PollAgain(th) ==
    /\ threads[th].kind = "poll"
    /\ threads[th].pc = "responded"
    /\ Len(threads[th].observed) + 1 < MaxPolls
    /\ threads' = [threads EXCEPT
           ![th].pc = "lookup",
           ![th].observed = Append(threads[th].observed, Val(threads[th].response)),
           ![th].response = None]
    /\ UNCHANGED <<tasks, tasks_lock, clock, analyzing>>
    /\ UNCHANGED analysisvars
    /\ UNCHANGED papervars

\* one single analysis, that succeeds, raises or lacks data, and its client
InitPoll ==
    /\ NoAnalysis
    /\ NoPaper
    /\ tasks = [t \in {} |-> None]
    /\ tasks_lock = None
    /\ clock = 0
    /\ analyzing = <<>>
    /\ \E sym \in ServedSymbols \ {None} :
          threads = [th \in {"r1", "p1"} |->
                        IF th = "r1" THEN SingleRequest(sym) ELSE PollRequest("r1")]

NextPoll ==
    \/ \E th \in DOMAIN threads : StartSingle(th)
    \/ \E th \in DOMAIN threads : Acquire(th)
    \/ \E th \in DOMAIN threads : Cleanup(th)
    \/ \E th \in DOMAIN threads : CreateSingle(th)
    \/ \E th \in DOMAIN threads : StartWorker(th)
    \/ \E th \in DOMAIN threads : SingleAnalyze(th)
    \/ \E th \in DOMAIN threads : SingleRecord(th)
    \/ \E th \in DOMAIN threads : SingleRecordResult(th)
    \/ \E th \in DOMAIN threads : SingleRecordReport(th)
    \/ \E th \in DOMAIN threads : SingleRecordError(th)
    \/ \E th \in DOMAIN threads : SingleFailed(th)
    \/ \E th \in DOMAIN threads : SingleFailedError(th)
    \/ \E th \in DOMAIN threads : PollStart(th)
    \/ \E th \in DOMAIN threads : PollLookup(th)
    \/ \E th \in DOMAIN threads : PollRead(th)
    \/ \E th \in DOMAIN threads : PollAgain(th)

SpecPoll == InitPoll /\ [][NextPoll]_vars

----------------------------------------------------------------------------
(***************************************************************************)
(* The paper trader: ZerodhaTrader.place_order in paper trading            *)
(* (src/zerodha_trading_bot.py).  Prices are hundredths.  avg_price is a   *)
(* Python float quotient; it is kept as the exact fraction num/den in      *)
(* lowest terms, so the float's rounding error is left out.  The order's   *)
(* timestamp and the clock part of its order_id are left out.              *)
(***************************************************************************)
MaxOrders == 3

RECURSIVE Gcd(_, _)
Gcd(a, b) == IF b = 0 THEN a ELSE Gcd(b, a % b)

\* the quotient n / d, d > 0
Frac(n, d) == LET g == Gcd(Abs(n), d) IN [num |-> n \div g, den |-> d \div g]

\* symbol.replace('.NS', '').replace('.BO', '')
clean_symbol(sym) == IF sym.mark \in {".NS", ".BO"} THEN sym.base ELSE sym.base \o sym.mark

\* _place_paper_order with what get_ltp answered: the positions and the
\* orders after the call, the order as the call left it, and how the call
\* ended
place_paper_order(order, ltp, positions, orders) ==
    IF ltp = None
    THEN [positions |-> positions,
          orders |-> orders,
          order |-> Put(Put(order, "status", "REJECTED"),
                        "message", "Could not get current price"),
          outcome |-> "returned"]
    ELSE LET executed_price == IF order.order_type = "MARKET" THEN ltp ELSE order.price
             executed == Put(Put(Put(order, "executed_price", executed_price),
                                 "status", "EXECUTED"),
                             "order_id", Len(orders) + 1)
             opened == IF order.symbol \in DOMAIN positions
                       THEN positions
                       ELSE Put(positions, order.symbol,
                                [quantity |-> 0, avg_price |-> Frac(0, 1)])
             pos == opened[order.symbol]
         IN  IF order.transaction_type = "BUY"
             THEN IF executed_price = None
                  THEN \* order['quantity'] * None raises TypeError
                       [positions |-> opened,
                        orders |-> orders,
                        order |-> executed,
                        outcome |-> "TypeError"]
                  ELSE LET total_value ==
                               Frac(pos.quantity * pos.avg_price.num
                                      + order.quantity * Val(executed_price)
                                          * pos.avg_price.den,
                                    pos.avg_price.den)
                           quantity == pos.quantity + order.quantity
                           avg_price == IF quantity > 0
                                        THEN Frac(total_value.num,
                                                  total_value.den * quantity)
                                        ELSE Frac(0, 1)
                       IN  [positions |-> Put(opened, order.symbol,
                                              [quantity |-> quantity,
                                               avg_price |-> avg_price]),
                            orders |-> Append(orders, executed),
                            order |-> executed,
                            outcome |-> "returned"]
             ELSE LET quantity == pos.quantity - order.quantity
                  IN  [positions |-> Put(opened, order.symbol,
                                         IF quantity <= 0
                                         THEN [quantity |-> 0, avg_price |-> Frac(0, 1)]
                                         ELSE [quantity |-> quantity,
                                               avg_price |-> pos.avg_price]),
                       orders |-> Append(orders, executed),
                       order |-> executed,
                       outcome |-> "returned"]

\* place_order of a paper trader (stoploss and target at their defaults)
place_order(sym, transaction_type, quantity, price, order_type, ltp, positions, orders) ==
    place_paper_order([symbol |-> clean_symbol(sym),
                       original_symbol |-> sym,
                       transaction_type |-> transaction_type,
                       quantity |-> quantity,
                       price |-> price,
                       order_type |-> order_type,
                       stoploss |-> None,
                       target |-> None,
                       status |-> "PENDING"],
                      ltp, positions, orders)

\* the symbols orders are placed for
OrderSymbols == {Sym("INFY", ".NS"), Sym("TCS", ".BO")}

\* the order quantities
Quantities == {1, 2}

\* the limit prices: price is None unless the caller gives one
LimitPrices == {None, Some(H(150))}

\* what get_ltp answers: the last close, None when there is no data
LastPrices == {None, Some(H(100)), Some(H(200))}

\* one call of place_order
PlaceOrder ==
    /\ Len(placed) < MaxOrders
    /\ \E sym \in OrderSymbols, transaction_type \in {"BUY", "SELL"},
          quantity \in Quantities, order_type \in {"MARKET", "LIMIT"},
          price \in LimitPrices, ltp \in LastPrices :
          LET call == place_order(sym, transaction_type, quantity, price,
                                  order_type, ltp, paper_positions, paper_orders)
          IN  /\ paper_positions' = call.positions
              /\ paper_orders' = call.orders
              /\ placed' = Append(placed, [order |-> call.order,
                                           outcome |-> call.outcome])
    /\ UNCHANGED analysisvars
    /\ UNCHANGED taskvars

InitPaper ==
    /\ NoAnalysis
    /\ NoTasks
    /\ NoPaper

NextPaper == PlaceOrder

SpecPaper == InitPaper /\ [][NextPaper]_vars

----------------------------------------------------------------------------
(* Properties                                                              *)

Done == pc = "done"

\* the inputs of generate_verdict: g1, g2, g3 and has_red
G1 == fund_result.gate_pass
G2 == TruthyB(val_result.gate_pass)
G3 == tech_result.gate_pass
Critical == red_flags.critical
Is(v, c) == verdict.verdict = v /\ verdict.confidence = c
ExtremeDebtGeneral ==
    sector_type = "general" /\ fund["de_ratio"] /= None /\ Val(fund["de_ratio"]) > H(3)

\* C1: a critical red flag forces AVOID / HIGH with position 0 and no trade
\* setup whatever the gates say; a general-sector stock with debt/equity
\* above 3 gets AVOID / HIGH even when all three gates pass.
C1_CriticalForcesAvoid ==
    Done =>
        /\ Critical => /\ Is("AVOID", "HIGH")
                       /\ verdict.position_pct = 0
                       /\ verdict.trade_setup = None
        /\ ExtremeDebtGeneral => Critical /\ Is("AVOID", "HIGH")

C1_Witness ==
    /\ Done /\ ExtremeDebtGeneral /\ G1 /\ G2 /\ G3
    /\ Val(fund["de_ratio"]) = H(4)
    /\ Is("AVOID", "HIGH")

\* C2: no critical flag and all three gates pass: the verdict is BUY; HIGH
\* with position 8 exactly when normalized >= 8.0, technical score >= 6 and
\* valuation CHEAP or FAIR; otherwise MEDIUM with position 5.
C2_AllPassBuy ==
    (Done /\ ~Critical /\ G1 /\ G2 /\ G3) =>
        /\ verdict.verdict = "BUY"
        /\ IF fund_result.normalized >= 80 /\ tech_result.score >= 6
              /\ val_result.verdict \in {"CHEAP", "FAIR"}
           THEN verdict.confidence = "HIGH" /\ verdict.position_pct = 8
           ELSE verdict.confidence = "MEDIUM" /\ verdict.position_pct = 5

C2_Witness ==
    /\ Done /\ ~Critical /\ G1 /\ G2 /\ G3
    /\ fund_result.normalized = 80 /\ tech_result.score = 6
    /\ Is("BUY", "HIGH") /\ verdict.position_pct = 8

\* C3: no critical flag, gates 1 and 2 pass, gate 3 fails: technical score
\* >= 4 gives ACCUMULATE / MEDIUM / 4, below 4 gives WAIT / LOW / 0.
C3_TechBorderline ==
    (Done /\ ~Critical /\ G1 /\ G2 /\ ~G3) =>
        IF tech_result.score >= 4
        THEN Is("ACCUMULATE", "MEDIUM") /\ verdict.position_pct = 4
        ELSE Is("WAIT", "LOW") /\ verdict.position_pct = 0

C3_Witness ==
    /\ Done /\ ~Critical /\ G1 /\ G2 /\ ~G3
    /\ tech_result.score = 4
    /\ Is("ACCUMULATE", "MEDIUM") /\ verdict.position_pct = 4

\* C4: no critical flag, gate 1 passes, gate 2 fails: WAIT / MEDIUM with
\* position 0 for every gate 3 outcome and technical score.
C4_OvervaluedWait ==
    (Done /\ ~Critical /\ G1 /\ ~G2) =>
        Is("WAIT", "MEDIUM") /\ verdict.position_pct = 0

C4_Witness ==
    /\ Done /\ ~Critical /\ G1 /\ val_result.gate_pass = Some(FALSE)
    /\ G3 /\ tech_result.score = 7
    /\ Is("WAIT", "MEDIUM")

\* C5: no critical flag, gate 2 passes, gate 1 fails: technical score >= 5
\* gives WAIT / LOW, below 5 gives AVOID / MEDIUM; position 0 in both.
C5_WeakQuality ==
    (Done /\ ~Critical /\ G2 /\ ~G1) =>
        /\ verdict.position_pct = 0
        /\ IF tech_result.score >= 5 THEN Is("WAIT", "LOW") ELSE Is("AVOID", "MEDIUM")

C5_Witness ==
    /\ Done /\ ~Critical /\ G2 /\ ~G1
    /\ tech_result.score = 4
    /\ Is("AVOID", "MEDIUM")

\* the rows of the decision table as the specification words them
TableRow(r) ==
    CASE r = 1 -> Critical
      [] r = 2 -> ~Critical /\ G1 /\ G2 /\ G3
      [] r = 3 -> ~Critical /\ G1 /\ G2 /\ ~G3
      [] r = 4 -> ~Critical /\ G1 /\ ~G2
      [] r = 5 -> ~Critical /\ G2 /\ ~G1
      [] r = 6 -> ~Critical /\ ~G1 /\ ~G2 /\ G3
      [] OTHER -> ~Critical /\ ~G1 /\ ~G2 /\ ~G3

TableVerdicts(r) ==
    CASE r = 1 -> {<<"AVOID", "HIGH">>}
      [] r = 2 -> {<<"BUY", "HIGH">>, <<"BUY", "MEDIUM">>}
      [] r = 3 -> {<<"ACCUMULATE", "MEDIUM">>, <<"WAIT", "LOW">>}
      [] r = 4 -> {<<"WAIT", "MEDIUM">>}
      [] r = 5 -> {<<"WAIT", "LOW">>, <<"AVOID", "MEDIUM">>}
      [] r = 6 -> {<<"SKIP", "HIGH">>}
      [] OTHER -> {<<"AVOID", "HIGH">>}

FailedGateNames ==
    (IF G1 THEN {} ELSE {"Quality"}) \cup (IF G2 THEN {} ELSE {"Valuation"})
        \cup (IF G3 THEN {} ELSE {"Timing"})

\* C6: no critical flag and neither gate 1 nor gate 2 passes: SKIP / HIGH
\* when gate 3 passes, AVOID / HIGH when it fails, and the AVOID action then
\* names every failed gate; every input falls in exactly one row of the
\* table and receives a verdict of that row.
C6_NoQualityNoValue ==
    Done =>
        /\ (~Critical /\ ~G1 /\ ~G2) =>
               IF G3 THEN Is("SKIP", "HIGH")
               ELSE /\ Is("AVOID", "HIGH")
                    /\ verdict.action.text = "Failed gates"
                    /\ {verdict.action.args[i] : i \in 1..Len(verdict.action.args)}
                           = FailedGateNames
        /\ Cardinality({r \in 1..7 : TableRow(r)}) = 1
        /\ \A r \in 1..7 :
               TableRow(r) => <<verdict.verdict, verdict.confidence>> \in TableVerdicts(r)

C6_Witness ==
    /\ Done /\ ~Critical /\ ~G1 /\ ~G2 /\ ~G3
    /\ Is("AVOID", "HIGH")
    /\ verdict.action.args = <<"Quality", "Valuation", "Timing">>

\* C7: a trade setup is attached exactly for BUY and ACCUMULATE; its entry
\* is the current price for BUY / HIGH and the immediate support otherwise,
\* stoploss the strong support, targets the immediate resistance, the strong
\* resistance and the 52-week high, and its position the verdict's position.
C7_TradeSetup ==
    Done =>
        LET sr == technical.support_resistance
            setup == Val(verdict.trade_setup)
        IN  /\ (verdict.trade_setup /= None) <=> verdict.verdict \in {"BUY", "ACCUMULATE"}
            /\ verdict.trade_setup /= None =>
                   /\ setup.entry = IF Is("BUY", "HIGH")
                                    THEN technical.moving_averages.current_price
                                    ELSE sr.immediate_support
                   /\ setup.stoploss = sr.strong_support
                   /\ setup.target_1 = sr.immediate_resistance
                   /\ setup.target_2 = sr.strong_resistance
                   /\ setup.target_3 = sr.52w_high
                   /\ setup.position_pct = verdict.position_pct

C7_Witness ==
    /\ Done /\ Is("BUY", "HIGH") /\ verdict.trade_setup /= None
    /\ Val(verdict.trade_setup).entry = technical.moving_averages.current_price
    /\ Val(verdict.trade_setup).entry > technical.support_resistance.immediate_support
    /\ Val(verdict.trade_setup).stoploss < technical.support_resistance.immediate_support

\* the Gate 1 checklist entries of the result, by outcome
PassedCriteria == {i \in DOMAIN fund_result.checklist : fund_result.checklist[i].pass = Some(TRUE)}
AssessedCriteria == {i \in DOMAIN fund_result.checklist : fund_result.checklist[i].pass /= None}
Gate1Keys == {fund_result.checklist[i].key : i \in DOMAIN fund_result.checklist}

\* n is score / assessed * 10 rounded to one decimal (in tenths of a tenth)
IsNearestTenth(n, score, assessed) ==
    2 * Abs(n * assessed - 100 * score) <= assessed

\* C8: every Gate 1 result (both rubrics, every input, the all-absent one
\* included) has exactly 10 criteria, score = number of passed criteria,
\* assessed = number of criteria with a non-null pass, total = 10,
\* 0 <= score <= assessed <= total, normalized = round(score/assessed*10, 1)
\* and 0 without a division when nothing is assessed, so normalized is in
\* [0, 10]; every Gate 3 result has 0 <= score <= total = 7.
C8_CountersInRange ==
    /\ pc /= "raised"
    /\ Done =>
        /\ Cardinality(DOMAIN fund_result.checklist) = 10
        /\ Cardinality(Gate1Keys) = 10
        /\ fund_result.score = Cardinality(PassedCriteria)
        /\ fund_result.assessed = Cardinality(AssessedCriteria)
        /\ fund_result.total = 10
        /\ 0 <= fund_result.score
        /\ fund_result.score <= fund_result.assessed
        /\ fund_result.assessed <= fund_result.total
        /\ IF fund_result.assessed = 0
           THEN fund_result.normalized = 0
           ELSE IsNearestTenth(fund_result.normalized, fund_result.score,
                               fund_result.assessed)
        /\ 0 <= fund_result.normalized /\ fund_result.normalized <= 100
        /\ tech_result.total = 7
        /\ 0 <= tech_result.score /\ tech_result.score <= tech_result.total

C8_Witness ==
    /\ Done /\ fund = EmptyFund
    /\ fund_result.assessed = 0 /\ fund_result.normalized = 0
    /\ Cardinality(DOMAIN fund_result.checklist) = 10
    /\ tech_result.score = 7

\* the gate decision as the specification words it, on exact ratios
RatioPass(score, assessed) ==
    (assessed >= 5 /\ 10 * score >= 7 * assessed) \/ score >= 7

\* C9: Gate 1 gate_pass equals (assessed >= 5 and score/assessed >= 0.7) or
\* score >= 7 for every reachable (score, assessed); with nothing assessed it
\* is false and no error is raised; from a passing result, any higher score at
\* the same assessed count passes as well.
C9_GatePassRule ==
    /\ pc /= "raised"
    /\ Done =>
        /\ fund_result.gate_pass = RatioPass(fund_result.score, fund_result.assessed)
        /\ fund_result.assessed = 0 => fund_result.gate_pass = FALSE
        /\ fund_result.gate_pass =>
               \A s \in fund_result.score..fund_result.assessed :
                   gate1_summary(fund_result.checklist, s, fund_result.assessed).gate_pass

C9_Witness ==
    /\ Done /\ sector_type = "nbfc"
    /\ fund_result.assessed = 5 /\ fund_result.score = 4
    /\ fund_result.gate_pass

\* some valuation lens has the data it needs to produce a signal
LensContributes ==
    \/ fund["pe"] /= None
    \/ fund["pb"] /= None /\ fund["roe"] /= None
    \/ fund["dividend_yield"] /= None /\ Val(fund["dividend_yield"]) > H(3)
    \/ fund["ev_ebitda"] /= None

\* C10: with at least one contributing lens and S the signal sum, the
\* valuation verdict is CHEAP for S >= 3, FAIR for 0..2, RICH for -2..-1,
\* EXTREME for S <= -3, and gate_pass is true exactly for CHEAP and FAIR;
\* with no contributing lens the verdict is N/A and gate_pass is null.
C10_ValuationBands ==
    Done =>
        IF LensContributes
        THEN LET S == val_result.score_sum
             IN  /\ val_result.verdict =
                        IF S >= 3 THEN "CHEAP"
                        ELSE IF S >= 0 THEN "FAIR"
                        ELSE IF S >= -2 THEN "RICH"
                        ELSE "EXTREME"
                 /\ val_result.gate_pass = Some(val_result.verdict \in {"CHEAP", "FAIR"})
        ELSE val_result.verdict = "N/A" /\ val_result.gate_pass = None

C10_Witness ==
    /\ Done /\ LensContributes
    /\ val_result.score_sum = 0
    /\ val_result.verdict = "FAIR" /\ val_result.gate_pass = Some(TRUE)

----------------------------------------------------------------------------
(* Red flags                                                               *)

HasFlag(flag) == \E i \in 1..Len(red_flags.flags) : red_flags.flags[i] = flag

Below(v, bound) == v /= None /\ Val(v) < bound
Above(v, bound) == v /= None /\ Val(v) > bound

\* C12: the negative-OCF and extreme-debt flags are raised only for the
\* general sector (and there exactly when OCF < 0, debt/equity > 3), the
\* negative-ROE flag exactly when ROE < 0 in every sector, critical holds
\* exactly when an extreme-debt or negative-ROE flag is listed, so under
\* banking/nbfc exactly when ROE < 0, and count is the number of flags.
C12_SectorAwareFlags ==
    Done =>
        /\ HasFlag(FlagNegativeOCF) <=>
               sector_type = "general" /\ Below(fund["ocf"], 0)
        /\ HasFlag(FlagExtremeDebt) <=>
               sector_type = "general" /\ Above(fund["de_ratio"], H(3))
        /\ HasFlag(FlagNegativeROE) <=> Below(fund["roe"], 0)
        /\ red_flags.critical <=>
               HasFlag(FlagExtremeDebt) \/ HasFlag(FlagNegativeROE)
        /\ sector_type \in {"banking", "nbfc"} =>
               (red_flags.critical <=> Below(fund["roe"], 0))
        /\ red_flags.count = Len(red_flags.flags)
        /\ red_flags.count =
               Cardinality({i \in 1..4 :
                   \/ i = 1 /\ HasFlag(FlagNegativeOCF)
                   \/ i = 2 /\ HasFlag(FlagExtremeDebt)
                   \/ i = 3 /\ HasFlag(FlagNegativeROE)
                   \/ i = 4 /\ (HasFlag(FlagLowPromoter) \/ HasFlag(FlagLowInsider))})

\* a bank with negative OCF, debt/equity over 3 and negative ROE: one flag
C12_Witness ==
    /\ Done
    /\ sector_type = "banking"
    /\ Below(fund["ocf"], 0)
    /\ Above(fund["de_ratio"], H(3))
    /\ red_flags.flags = <<FlagNegativeROE>>
    /\ red_flags.critical
    /\ red_flags.count = 1

\* the promoter figure, or the insider figure when there is no promoter figure
Holding == IF fund["promoter_holding"] /= None THEN fund["promoter_holding"]
           ELSE fund["insider_pct"]

Institutional ==
    (IF fund["fii_holding"] = None THEN 0 ELSE Val(fund["fii_holding"]))
    + (IF fund["dii_holding"] = None THEN 0 ELSE Val(fund["dii_holding"]))

HasLowHolding == HasFlag(FlagLowPromoter) \/ HasFlag(FlagLowInsider)

----------------------------------------------------------------------------
(* Gate 3                                                                  *)

Gate3Passing == {i \in DOMAIN tech_result.checklist : tech_result.checklist[i] = TRUE}

IsBullish(name) == \E i \in 1..Len(bullish_p) : InStr(bullish_p[i], {name})
IsBearish(name) == \E i \in 1..Len(bearish_p) : InStr(bearish_p[i], {name})

\* a pattern is detected and the prior trend agrees with every directional one
ConsistentPattern ==
    /\ data.ind.patterns /= NoPattern
    /\ \A name \in data.ind.patterns :
           /\ IsBullish(name) => data.ind.prior_trend = "Downtrend"
           /\ IsBearish(name) => data.ind.prior_trend = "Uptrend"

SupportWithin4Pct ==
    100 * Abs(technical.moving_averages.current_price
              - technical.support_resistance.immediate_support)
        <= 4 * technical.moving_averages.current_price

AllFavourable ==
    /\ ConsistentPattern
    /\ SupportWithin4Pct
    /\ data.ind.above_average
    /\ technical.rrr.valid
    /\ data.ind.macd_bullish
    /\ ~technical.rsi.nan
    /\ technical.rsi.value < H(70)
    /\ data.ind.above_50_dma
    /\ data.ind.above_200_dma \in {None, Some(TRUE)}

\* C14: Gate 3 lists seven criteria, each passed or failed; score is the
\* number passed and the gate passes exactly from 5 on; with every condition
\* favourable the score is 7; the averages criterion passes above the
\* 50-session average when the 200-session average is unavailable.
C14_Gate3Checklist ==
    Done =>
        /\ DOMAIN tech_result.checklist = 1..7
        /\ \A i \in 1..7 : tech_result.checklist[i] \in BOOLEAN
        /\ tech_result.score = Cardinality(Gate3Passing)
        /\ tech_result.gate_pass <=> tech_result.score >= 5
        /\ AllFavourable => tech_result.score = 7 /\ tech_result.gate_pass
        /\ data.ind.above_50_dma /\ data.ind.above_200_dma = None
               => tech_result.checklist[7]

\* all seven pass without a 200-session average
C14_Witness ==
    /\ Done
    /\ AllFavourable
    /\ data.ind.above_200_dma = None
    /\ tech_result.score = 7
    /\ tech_result.gate_pass

----------------------------------------------------------------------------
(* Symbol resolution                                                       *)

\* the attempts the symbol calls for
ExpectedAttempts ==
    IF symbol.mark = ""
    THEN <<symbol, Sym(symbol.base, ".NS"), Sym(symbol.base, ".BO")>>
    ELSE <<symbol>>

\* the attempt's one-year history has at least 50 sessions
Qualifies(sym) ==
    LET h == provider.history[sym.mark]
    IN  h.kind = "frame" /\ h.sessions >= 50

NoGateRan ==
    /\ technical = None
    /\ fund_result = None
    /\ val_result = None
    /\ red_flags = None
    /\ tech_result = None
    /\ verdict = None

\* C15: the attempts made are the leading part of bare, .NS, .BO for a bare
\* symbol and the symbol itself otherwise; every attempt before the last was
\* raising, empty or short; a qualifying last attempt supplies the analysed
\* series, otherwise every attempt was made, the outcome is insufficient data
\* and no gate has run; no exception leaves the resolution.
C15_ResolveOrder ==
    pc /= "request" =>
        /\ pc /= "raised"
        /\ Len(attempts) >= 1
        /\ attempts = SubSeq(ExpectedAttempts, 1, Len(attempts))
        /\ \A i \in 1..(Len(attempts) - 1) : ~Qualifies(attempts[i])
        /\ IF Qualifies(attempts[Len(attempts)])
           THEN /\ pc = "done"
                /\ data = provider.history[attempts[Len(attempts)].mark].data
           ELSE /\ Len(attempts) = Len(ExpectedAttempts)
                /\ pc = "insufficient"
                /\ NoGateRan

\* a bare symbol whose first attempt raises and second is short resolves on .BO
C15_Witness ==
    /\ pc = "done"
    /\ symbol = Sym("INFY", "")
    /\ provider.history[""] = HistoryRaises
    /\ provider.history[".NS"].kind = "frame"
    /\ provider.history[".NS"].sessions = 49
    /\ attempts = <<Sym("INFY", ""), Sym("INFY", ".NS"), Sym("INFY", ".BO")>>
    /\ data = DataOf(".BO")

----------------------------------------------------------------------------
(* Fundamentals merge                                                      *)

\* the symbol the price series was resolved for
ResolvedSymbol == attempts[Len(attempts)]

\* the mapping the secondary provider returned, None when it yielded nothing
Secondary ==
    fetch_from_screener(ResolvedSymbol, provider.has_scraping, provider.response)

Primary == primary_fundamentals(provider.info, provider.cagr)

AllowList ==
    {"pe", "pb", "roe", "roce", "book_value", "dividend_yield", "eps",
     "market_cap", "de_ratio", "rev_cagr_3y", "pat_cagr_3y", "operating_margin",
     "promoter_holding", "insider_pct", "ocf", "gnpa", "nnpa", "financing_margin",
     "fii_holding", "dii_holding"}

\* the value the secondary provider supplied for a field, converted to the
\* unit of the merged mapping; None when it supplied none
Supplied(s, f) ==
    CASE f = "market_cap" ->
             IF s.market_cap_cr = None THEN None
             ELSE Some(Val(s.market_cap_cr) * 10000000)
      [] f = "ocf" -> IF s.ocf_cr = None THEN None ELSE Some(Val(s.ocf_cr) * 10000000)
      [] f = "operating_margin" -> s.opm
      [] f = "insider_pct" -> s.promoter_holding
      [] f = "roce" -> IF s.roce_annual /= None THEN s.roce_annual ELSE s.roce
      [] OTHER -> s[f]

\* C16: after a merge every allow-listed field holds the value the secondary
\* provider supplied for it, the primary value when it supplied none, and
\* every other field holds the primary value.
C16_MergeAllowList ==
    Done /\ Secondary /= None =>
        /\ \A f \in AllowList :
               fund[f] = IF Supplied(Val(Secondary), f) /= None
                         THEN Supplied(Val(Secondary), f) ELSE Primary[f]
        /\ \A f \in ResultFields \ (AllowList \cup {"data_source"}) :
               fund[f] = Primary[f]

\* the secondary provider yielded nothing for the resolved symbol
SecondaryUnavailable ==
    \/ ~provider.has_scraping
    \/ ResolvedSymbol.mark \notin {"", ".NS", ".BO"}
    \/ provider.response.kind = "raises"
    \/ provider.response.status /= 200

SecondaryOnly == {"roce", "promoter_holding", "gnpa", "nnpa", "financing_margin"}

\* C17: when the secondary provider yields nothing the analysis still ends in
\* a verdict, on exactly the primary-derived mapping: data_source is yfinance
\* and the secondary-only fields are not assessed.
C17_PrimaryOnly ==
    pc /= "request" /\ Qualifies(ResolvedSymbol) /\ SecondaryUnavailable =>
        /\ pc = "done"
        /\ verdict /= None
        /\ fund = Primary
        /\ fund["data_source"] = Some("yfinance")
        /\ \A f \in SecondaryOnly : fund[f] = None

\* a non-200 answer for a symbol whose primary mapping is fully populated
C17_Witness ==
    /\ Done
    /\ provider.has_scraping
    /\ provider.response.kind = "http"
    /\ provider.response.status = 404
    /\ provider.info = FullInfo
    /\ fund["data_source"] = Some("yfinance")
    /\ fund["roce"] = None
    /\ fund["pe"] = Some(H(25))

----------------------------------------------------------------------------
(* RSI                                                                     *)

\* C20: the RSI of an analysed series (at least 50 sessions) is a number
\* from 0 to 100, also when the latest window has no loss or no move at all.
C20_RsiInRange ==
    Done =>
        /\ ~technical.rsi.nan
        /\ technical.rsi.value >= 0
        /\ technical.rsi.value <= H(100)

----------------------------------------------------------------------------
(* Valuation verdict and signal sum across the results of a batch          *)

\* the valuation results a batch worker has accumulated
BatchValuations ==
    UNION {{threads[th].results[k].val_result : k \in 1..Len(threads[th].results)} :
              th \in {w \in DOMAIN threads : threads[w].kind = "batch"}}

AgreeOnVerdict(a, b) == a.verdict = b.verdict /\ a.gate_pass = b.gate_pass

\* at least one lens contributed a signal
LensApplied(v) == v.verdict /= "N/A"

\* C11 as stated: any two valuation results that report the same score_sum
\* report the same verdict and the same gate_pass
C11_VerdictBySumAlone ==
    \A a \in BatchValuations, b \in BatchValuations :
        a.score_sum = b.score_sum => AgreeOnVerdict(a, b)

\* C11 amended: any two valuation results to which at least one lens
\* contributed a signal and that report the same score_sum report the same
\* verdict and the same gate_pass, whichever lenses contributed; a result
\* without any lens reports N/A with score_sum 0 and no gate decision
C11_VerdictBySum ==
    \A a \in BatchValuations :
        /\ \A b \in BatchValuations :
              LensApplied(a) /\ LensApplied(b) /\ a.score_sum = b.score_sum
                  => AgreeOnVerdict(a, b)
        /\ ~LensApplied(a) => a.score_sum = 0 /\ a.gate_pass = None

\* two results with the same sum from different lenses, one of them with a
\* negative signal, in one batch
C11_Witness ==
    \E a \in BatchValuations, b \in BatchValuations :
        /\ LensApplied(a) /\ LensApplied(b)
        /\ a.score_sum = b.score_sum
        /\ a.details /= b.details
        /\ Len(a.details) /= Len(b.details)
        /\ AgreeOnVerdict(a, b)

----------------------------------------------------------------------------
(* Batch execution and per-symbol failures                                 *)

\* the analyses a batch owes: those of the symbols whose analysis neither
\* raises nor returns None, in input order
RECURSIVE SuccessfulAnalyses(_)
SuccessfulAnalyses(symbols) ==
    IF symbols = <<>> THEN <<>>
    ELSE LET result == market_analysis(Head(symbols))
             rest == SuccessfulAnalyses(Tail(symbols))
         IN  IF result.kind = "analysis" THEN <<result.analysis>> \o rest ELSE rest

\* the loop of run_batch_analysis is over
PastBatchLoop(frame) ==
    frame.kind = "batch" /\ frame.pc \in {"finish", "finish_locked", "report"}

\* main() has left run_analysis, by its return or by an exception
LeftRunAnalysis(frame) ==
    frame.kind = "main" /\ frame.stocks /= <<>> /\ frame.pc \in {"exited", "raised"}

\* C18: once a batch loop is over, every symbol of the batch was attempted
\* once in input order, whether or not an earlier one raised or returned
\* insufficient data, and the accumulated results are exactly the successful
\* analyses in input order; in run_batch_analysis and in run_analysis alike
C18_BatchIsolation ==
    \A th \in DOMAIN threads :
        LET frame == threads[th]
        IN  /\ PastBatchLoop(frame) =>
                  /\ analyzing = frame.symbols
                  /\ frame.results = SuccessfulAnalyses(frame.symbols)
                  /\ frame.pc = "report" =>
                         tasks[frame.task_id].results.items = frame.results
            /\ LeftRunAnalysis(frame) =>
                  /\ analyzing = frame.stocks
                  /\ frame.pc = "exited" =>
                         LET owed == SuccessfulAnalyses(frame.stocks)
                         IN  frame.report =
                                 Some([k \in 1..Len(owed) |-> summary_row(owed[k])])

----------------------------------------------------------------------------
(* Writes to the task registry                                             *)

\* the positions inside a `with tasks_lock:` block
LockedPositions ==
    {WithLock[p] : p \in DOMAIN WithLock}
        \cup {"record_result", "record_report", "record_error", "failed_error"}

\* the threads inside a `with tasks_lock:` block
InsideBlock == {th \in DOMAIN threads : threads[th].pc \in LockedPositions}

\* at most one thread is inside a block, and it is the one holding the lock
OneWriter ==
    /\ Cardinality(InsideBlock) <= 1
    /\ \A th \in InsideBlock : tasks_lock = Some(th)

\* a batch worker that may still append to its results list
StillAppending(th) ==
    /\ th \in DOMAIN threads
    /\ threads[th].kind = "batch"
    /\ threads[th].pc \notin {"report", "exited", "crashed"}

\* the registry holds the worker's own list only once the worker has made its
\* final write; until then it holds copies
CopiesUntilFinal ==
    \A t \in DOMAIN tasks :
        tasks[t].type = "batch" /\ tasks[t].results.shared =>
            ~StillAppending(t) /\ tasks[t].status = "complete"

\* a step that changes the registry is taken by the thread holding the lock,
\* from inside its block, and no other thread obtains the lock by it
WriteHoldsLock ==
    tasks' /= tasks =>
        /\ tasks_lock /= None
        /\ Val(tasks_lock) \in InsideBlock
        /\ tasks_lock' \in {None, tasks_lock}
        /\ threads'[Val(tasks_lock)].pc /= threads[Val(tasks_lock)].pc

\* C19: every write to the task registry (creating a task, updating it,
\* deleting expired tasks) is made while holding tasks_lock, so that no two
\* threads write at the same time, and until its final write the batch
\* worker publishes copies of its results list, never the list itself
C19_WritesUnderLock ==
    /\ [](OneWriter /\ CopiesUntilFinal)
    /\ [][WriteHoldsLock]_vars

\* a batch worker waits for the lock another thread writes under, with a copy
\* of its first result already published
C19_Witness ==
    \E writer \in InsideBlock, waiting \in DOMAIN threads :
        /\ waiting /= writer
        /\ threads[waiting].pc \in DOMAIN WithLock
        /\ StillAppending(waiting)
        /\ waiting \in DOMAIN tasks
        /\ tasks[waiting].results.items /= <<>>
        /\ ~tasks[waiting].results.shared

----------------------------------------------------------------------------
(* Valuation lenses                                                        *)

\* the run's fundamentals without any growth figure: only the PEG lens reads
\* them, so the valuation of these differs from the run's by the PEG lens
WithoutGrowth == With(fund, [pat_cagr_3y |-> None, earnings_growth_qoq |-> None])

\* the signal the PEG lens added to the sum
PegSignal == val_result.score_sum - assess_valuation(WithoutGrowth, sector_type).score_sum

InDetails(label) == \E k \in 1..Len(val_result.details) : val_result.details[k] = label

PegLabels == {"PEG (Very Cheap)", "PEG (Cheap)", "PEG (Fair)", "PEG (Expensive)",
              "PEG (Extreme)"}

\* the PEG lens contributed
PegContributes == \E label \in PegLabels : InDetails(label)

\* growth: the 3-year PAT CAGR, else quarter-over-quarter earnings growth x 100
ClaimedGrowth ==
    IF Truthy(fund["pat_cagr_3y"]) THEN fund["pat_cagr_3y"]
    ELSE IF fund["earnings_growth_qoq"] /= None
    THEN Some(Val(fund["earnings_growth_qoq"]) * 100)
    ELSE None

\* PE / growth rounded to 2 decimals
ClaimedPeg == RoundDiv(100 * Val(fund["pe"]), Val(ClaimedGrowth))

\* C21: the PEG lens contributes nothing when PE is absent or growth is absent
\* or not positive; when it contributes, PEG is PE / growth rounded to 2
\* decimals (growth the 3-year PAT CAGR, else quarter-over-quarter earnings
\* growth x 100) and the signal is +2 for PEG < 0.5, +1 for 0.5 <= PEG < 1,
\* 0 for 1 <= PEG <= 2, -1 for 2 < PEG <= 5 and -2 for PEG > 5; PE 12 with
\* growth 24 gives PEG 0.5 and the signal +1
C21_PegLens ==
    Done =>
        /\ fund["pe"] = None \/ ClaimedGrowth = None \/ Val(ClaimedGrowth) <= 0
               => ~PegContributes /\ PegSignal = 0 /\ val_result.peg = None
        /\ PegContributes =>
               /\ val_result.peg = Some(ClaimedPeg)
               /\ PegSignal = IF ClaimedPeg < 50 THEN 2
                              ELSE IF ClaimedPeg < H(1) THEN 1
                              ELSE IF ClaimedPeg <= H(2) THEN 0
                              ELSE IF ClaimedPeg <= H(5) THEN -1
                              ELSE -2
        /\ fund["pe"] = Some(H(12)) /\ ClaimedGrowth = Some(H(24))
               => PegContributes /\ val_result.peg = Some(50) /\ PegSignal = 1

\* the boundary case: PE 12, growth 24
C21_Witness ==
    /\ Done
    /\ fund["pe"] = Some(H(12)) /\ fund["pat_cagr_3y"] = Some(H(24))
    /\ val_result.peg = Some(50)
    /\ InDetails("PEG (Cheap)")
    /\ PegSignal = 1


----------------------------------------------------------------------------
(* Trend criterion of the technical checklist                              *)

TrendCriterion == tech_result.checklist[2]

HasBullish == \E name \in data.ind.patterns : IsBullish(name)
HasBearish == \E name \in data.ind.patterns : IsBearish(name)

\* C22: criterion 2 of Gate 3 fails whenever no pattern is detected; with a
\* bullish pattern in the detected set it passes only on a prior Downtrend,
\* with a bearish pattern in the set only on a prior Uptrend, sets holding
\* both kinds included; a set of neutral patterns only (Doji) passes for
\* every prior trend, Unknown included.
C22_TrendCriterion ==
    Done =>
        /\ data.ind.patterns = NoPattern => ~TrendCriterion
        /\ HasBullish /\ TrendCriterion => data.ind.prior_trend = "Downtrend"
        /\ HasBearish /\ TrendCriterion => data.ind.prior_trend = "Uptrend"
        /\ data.ind.patterns = {"Doji"} => TrendCriterion


\* what the three earnings-based lenses add together to the signal sum
WithoutPe == With(fund, [pe |-> None])
EarningsSignal == val_result.score_sum - assess_valuation(WithoutPe, sector_type).score_sum

PositiveEarningsLabels ==
    {"PEG (Very Cheap)", "PEG (Cheap)", "P/E (Cheap)", "Earnings Yield (Attractive)"}

\* C23: a trailing P/E of zero or below never receives a positive signal
\* from the PEG, the absolute P/E or the earnings-yield lens: each of them
\* adds a signal of at most 0 or nothing, in every sector and for every growth.
C23_NonPositivePe ==
    Done /\ fund["pe"] /= None /\ Val(fund["pe"]) <= 0 =>
        /\ \A label \in PositiveEarningsLabels : ~InDetails(label)
        /\ EarningsSignal <= 0


----------------------------------------------------------------------------
(* Gate 1 decision by the ratio alone                                      *)

\* C24: Gate 1 never passes with fewer than 5 assessed criteria, and the
\* `score >= 7` alternative never changes the outcome: gate_pass is true
\* exactly when assessed >= 5 and 10 * score >= 7 * assessed.
C24_RatioAlone ==
    Done =>
        /\ fund_result.assessed < 5 => ~fund_result.gate_pass
        /\ fund_result.gate_pass <=>
               /\ fund_result.assessed >= 5
               /\ 10 * fund_result.score >= 7 * fund_result.assessed

\* seven passed out of ten assessed: both alternatives of the rule hold
C24_Witness ==
    /\ Done
    /\ fund_result.score = 7 /\ fund_result.assessed = 10
    /\ fund_result.gate_pass


----------------------------------------------------------------------------
(* Unassessed valuation in the combined verdict                            *)

Unassessed == val_result.verdict = "N/A" /\ val_result.gate_pass = None

\* C25: a valuation that could not be assessed (verdict N/A, gate_pass null)
\* is treated like a failed Gate 2: without a critical flag the verdict is
\* WAIT / MEDIUM when Gate 1 passes, SKIP / HIGH when Gate 1 fails and Gate 3
\* passes, AVOID / HIGH when both fail; it is never BUY or ACCUMULATE.
C25_UnassessedValuation ==
    Done /\ Unassessed =>
        /\ pc /= "raised"
        /\ verdict.verdict \notin {"BUY", "ACCUMULATE"}
        /\ ~Critical /\ G1 => verdict.verdict = "WAIT" /\ verdict.confidence = "MEDIUM"
        /\ ~Critical /\ ~G1 /\ G3 => verdict.verdict = "SKIP" /\ verdict.confidence = "HIGH"
        /\ ~Critical /\ ~G1 /\ ~G3 => verdict.verdict = "AVOID" /\ verdict.confidence = "HIGH"

\* quality and timing pass, the valuation is unassessed: WAIT, not BUY
C25_Witness ==
    /\ Done /\ Unassessed
    /\ ~Critical /\ G1 /\ G3
    /\ verdict.verdict = "WAIT" /\ verdict.confidence = "MEDIUM"


----------------------------------------------------------------------------
(* What a positive verdict implies about the gates                         *)

\* C26: over the whole pipeline a BUY verdict implies no critical red flag,
\* Gate 1 passed, a valuation verdict of CHEAP or FAIR and a technical score
\* of at least 5; an ACCUMULATE verdict implies a technical score of exactly
\* 4; position_pct is positive exactly for BUY and ACCUMULATE.
C26_PositiveVerdicts ==
    Done =>
        /\ verdict.verdict = "BUY" =>
               /\ ~red_flags.critical
               /\ fund_result.gate_pass
               /\ val_result.verdict \in {"CHEAP", "FAIR"}
               /\ tech_result.score >= 5
        /\ verdict.verdict = "ACCUMULATE" => tech_result.score = 4
        /\ verdict.position_pct > 0 <=> verdict.verdict \in {"BUY", "ACCUMULATE"}

\* a BUY at the lowest passing technical score
C26_Witness ==
    /\ Done
    /\ verdict.verdict = "BUY" /\ verdict.position_pct > 0
    /\ tech_result.score = 5
    /\ val_result.verdict \in {"CHEAP", "FAIR"}


----------------------------------------------------------------------------
(* Order of the pivot levels                                               *)

Levels == technical.support_resistance
CurrentClose == technical.moving_averages.current_price
Risk == CurrentClose - Levels.immediate_support
Reward == Levels.immediate_resistance - CurrentClose

LevelsOrdered ==
    /\ Levels.strong_support <= Levels.immediate_support
    /\ Levels.immediate_support <= CurrentClose
    /\ CurrentClose <= Levels.immediate_resistance
    /\ Levels.immediate_resistance <= Levels.strong_resistance

SetupOrdered ==
    verdict.trade_setup /= None =>
        LET setup == Val(verdict.trade_setup)
        IN  /\ setup.stoploss <= setup.entry
            /\ setup.entry <= setup.target_1
            /\ setup.target_1 <= setup.target_2

Coincide == data.high_20 = data.low_20 /\ data.low_20 = data.close

----------------------------------------------------------------------------
(* Responses of get_analysis                                               *)

\* the responses a client has received so far, in order
Responses(th) ==
    threads[th].observed \o
        (IF threads[th].pc = "responded" THEN <<Val(threads[th].response)>> ELSE <<>>)

Pollers == {th \in DOMAIN threads : threads[th].kind = "poll"}

\* C28: under every interleaving of get_analysis with run_single_analysis a
\* response with status 'complete' carries the result and the report, a
\* response with status 'error' carries the error message the worker
\* recorded, and after a response with 'complete' or 'error' no later
\* response of the same task has status 'running'.
C28_ConsistentPolls ==
    \A th \in Pollers :
        LET responses == Responses(th)
            task == tasks[Val(threads[th].task_id)]
        IN  \A k \in 1..Len(responses) :
                /\ responses[k].status = "complete" =>
                       responses[k].result /= None /\ responses[k].report /= None
                /\ responses[k].status = "error" =>
                       /\ responses[k].error /= None
                       /\ responses[k].error /= Some("Unknown error")
                /\ responses[k].status \in {"complete", "error"} =>
                       \A later \in (k + 1)..Len(responses) :
                           responses[later].status /= "running"


----------------------------------------------------------------------------
(* Life of a registered task                                               *)

TaskIds == {TaskIdFor[r] : r \in DOMAIN TaskIdFor}

Workers == {th \in DOMAIN threads : threads[th].kind \in {"single", "batch"}}

\* the worker is queued or running
AtWork(th) == threads[th].pc \notin {"exited", "crashed"}

Finished(t) == t \in DOMAIN tasks /\ tasks[t].status \in {"complete", "error"}

\* no task is removed while its worker is queued or running, and every write
\* of a worker finds its entry
NeverRemovedAtWork ==
    \A th \in Workers :
        /\ AtWork(th) /\ threads[th].pc /= "report" => threads[th].task_id \in DOMAIN tasks
        /\ threads[th].pc /= "crashed"
        /\ threads[th].kind = "single" => threads[th].error /= Some("KeyError")

\* a batch worker goes through all its symbols
AllSymbolsProcessed ==
    \A th \in Workers :
        threads[th].kind = "batch" /\ threads[th].pc \in {"report", "exited"} =>
            threads[th].i = Len(threads[th].symbols) + 1

CompletedInRange ==
    \A t \in DOMAIN tasks :
        tasks[t].type = "batch" =>
            /\ tasks[t].completed <= tasks[t].total
            /\ tasks[t].status = "complete" => tasks[t].completed = tasks[t].total

CompletedGrows ==
    \A t \in DOMAIN tasks :
        t \in DOMAIN tasks' /\ tasks[t].type = "batch" =>
            tasks'[t].completed >= tasks[t].completed

\* C29: every task registered by start_analysis or start_batch_analysis
\* eventually has status 'complete' or 'error', whatever cleanup_old_tasks
\* does on behalf of other requests: no task is removed while its worker is
\* queued or running, every worker write finds its entry, a batch worker
\* processes all its symbols, completed never decreases nor exceeds total,
\* and a complete batch has completed = total.
C29_TasksFinish ==
    /\ [](NeverRemovedAtWork /\ AllSymbolsProcessed /\ CompletedInRange)
    /\ [][CompletedGrows]_vars
    /\ \A t \in TaskIds : (t \in DOMAIN tasks) ~> Finished(t)


----------------------------------------------------------------------------
(* C30: the paper order book                                               *)

\* the position held for a clean symbol, the empty holding when there is none
PaperHolding(positions, s) ==
    IF s \in DOMAIN positions THEN positions[s]
    ELSE [quantity |-> 0, avg_price |-> Frac(0, 1)]

\* every paper position has quantity >= 0, and avg_price 0 when quantity is 0
PositionsSound ==
    \A s \in DOMAIN paper_positions :
        /\ paper_positions[s].quantity >= 0
        /\ paper_positions[s].quantity = 0 => paper_positions[s].avg_price.num = 0

\* the call this step made, as recorded
LastPlaced == placed'[Len(placed')]

\* an executed BUY leaves the quantity-weighted average of the previous
\* holding and the fill: avg' * quantity' = avg * quantity + fill * bought
BuyAverages ==
    LET o == LastPlaced.order
        before == PaperHolding(paper_positions, o.symbol)
        after == PaperHolding(paper_positions', o.symbol)
    IN  (LastPlaced.outcome = "returned" /\ o.status = "EXECUTED"
            /\ o.transaction_type = "BUY")
        => /\ after.quantity = before.quantity + o.quantity
           /\ after.avg_price.num * after.quantity * before.avg_price.den
                = (before.avg_price.num * before.quantity
                     + Val(o.executed_price) * o.quantity * before.avg_price.den)
                  * after.avg_price.den

\* an executed SELL takes the quantity off the holding, and a SELL larger
\* than the holding leaves quantity 0
SellClamps ==
    LET o == LastPlaced.order
        before == PaperHolding(paper_positions, o.symbol)
        after == PaperHolding(paper_positions', o.symbol)
    IN  (o.status = "EXECUTED" /\ o.transaction_type = "SELL")
        => after.quantity = (IF o.quantity > before.quantity THEN 0
                             ELSE before.quantity - o.quantity)

\* a rejected order leaves paper_positions and paper_orders as they were
RejectedLeavesBook ==
    LastPlaced.order.status = "REJECTED"
        => paper_positions' = paper_positions /\ paper_orders' = paper_orders

\* an order that is not rejected is appended to paper_orders, once, with
\* status EXECUTED
ExecutedAppended ==
    LastPlaced.order.status /= "REJECTED"
        => /\ LastPlaced.order.status = "EXECUTED"
           /\ paper_orders' = Append(paper_orders, LastPlaced.order)

\* C30: after any sequence of paper BUY and SELL orders with positive
\* quantities every paper position has quantity >= 0 and avg_price 0 when
\* its quantity is 0; a BUY sets avg_price to the quantity-weighted average
\* of the previous holding and the fill; a SELL larger than the holding
\* leaves quantity 0; a rejected order leaves paper_positions and
\* paper_orders unchanged; and every order that is not rejected is appended
\* to paper_orders exactly once with status EXECUTED.
C30_PaperBook ==
    /\ []PositionsSound
    /\ [][BuyAverages /\ SellClamps /\ RejectedLeavesBook /\ ExecutedAppended]_vars

=============================================================================
